---- MODULE Spec2Model ----
(***************************************************************************)
(* Serverless RAG: the query Lambda (src/src/lambdas/query/handler.py).    *)
(*                                                                         *)
(* Units.  Scores are integers in units of 1/10000 (0.7 is 7000).  The     *)
(* clock `now` counts ticks of 1/TicksPerSecond second, so that            *)
(* time.time() has a fractional part and int(...) truncates something.     *)
(* Text is a sequence of one-character strings.                            *)
(***************************************************************************)
EXTENDS Integers, Sequences, FiniteSets, TLC

VARIABLES
  cacheEnabled,   \* CACHE_ENABLED (module configuration, fixed at load)
  cacheTable,     \* the DynamoDB table CACHE_TABLE: a set of items
  now,            \* time.time(), in ticks
  runs,           \* number of handler invocations so far (bounded)
  pc,             \* position of the current invocation
  raw,            \* the "query" value of the event body
  query,          \* handler: body.get("query", "").strip()
  start_time,     \* process_query: start_time
  stage_start,    \* embed_start / search_start / llm_start
  cache_key,      \* process_query: cache_key
  embedding_tokens10, \* embedding_tokens, in tenths of a token
  embed_ms, search_ms, llm_ms, llm_tokens,
  matches,        \* response.matches of index.query
  search_results, \* search_pinecone's return value
  context, sources,
  response,       \* process_query's response dict
  metrics,        \* process_query's QueryMetrics
  result,         \* the handler's return value (statusCode, body)
  trace,          \* stages this invocation has run, in order
  calls,          \* external calls this invocation has made
  cacheAtStart,   \* cacheTable when this invocation started
  cacheRead,      \* how this invocation's cache lookup went
  cacheWrite,     \* how this invocation's cache write went, and when
  prev,           \* the previous invocation, when it stored its response
  key_in, key_out, \* get_cache_key applied to a pair of texts
  batch_size,     \* PineconeDB.batch_size
  pineIndex,      \* the Pinecone index: the vectors it holds
  pgTable,        \* the PostgreSQL table: its rows
  lastCall,       \* the last call made on both stores, with what it returned
  latest,         \* per id, its latest upsert since it was last deleted
  chunk_in,       \* chunk_text's arguments
  chunk_out,      \* chunk_text's return value
  generation,     \* generate_response's arguments and the messages it sends
  client,         \* a lazily created connection and the threads using it
  filter_metadata, \* the "filter" of the request being answered
  config,         \* the lambdas' environment: VECTOR_DB_TYPE, SQS_QUEUE_URL
  docTable,       \* the DynamoDB document metadata table
  queue,          \* the SQS embedding queue: its messages and their deliveries
  ingestion,      \* the ingestion lambda: where process_document is
  embedder        \* the embedding lambda: where its handler is

vars == <<cacheEnabled, cacheTable, now, runs, pc, raw, query,
          start_time, stage_start, cache_key, embedding_tokens10, embed_ms,
          search_ms, llm_ms, llm_tokens, matches, search_results, context, sources,
          response, metrics, result, trace, calls, cacheAtStart, cacheRead,
          cacheWrite, prev, key_in, key_out, batch_size, pineIndex, pgTable,
          lastCall, latest, chunk_in, chunk_out, generation, client,
          filter_metadata, config, docTable, queue, ingestion, embedder>>

storeVars == <<batch_size, pineIndex, pgTable, lastCall, latest>>
chunkVars == <<chunk_in, chunk_out>>
docVars == <<config, docTable, queue, ingestion, embedder>>
flowVars == <<filter_metadata, docVars>>
auxVars == <<generation, client, flowVars>>

(***************************************************************************)
(* Configuration (handler.py lines 20-30) and bounds                       *)
(***************************************************************************)
CACHE_TTL == 3600
TOP_K == 5
SIMILARITY_THRESHOLD == 7000
MAX_QUERY_LEN == 1000
\* vector_db.py: PineconeDB's default batch size, the text kept in metadata
DEFAULT_BATCH_SIZE == 100
PINECONE_TEXT_LIMIT == 1000
\* embedding/handler.py: BATCH_SIZE's default, text[:100], text[:1000]
EMBED_BATCH_SIZE == 100
CHUNK_ID_PREFIX == 100
STORED_TEXT_LIMIT == 1000

TicksPerSecond == 2
MaxRuns == 2
MaxMatches == 2
MaxKeyLen == 2

\* Python's None; an event body without "query"; no key computed yet
None == [none |-> TRUE]
NoQueryKey == <<"<no query>">>
NoKey == <<>>
\* an exception leaving a function
Raised == [raised |-> TRUE]
NoTime == -1
\* no call made on the vector stores yet
NoCall == [name |-> "none"]

(***************************************************************************)
(* Text                                                                    *)
(***************************************************************************)
Whitespace == {" ", "\t"}

LowerChar(c) == CASE c = "A" -> "a" [] c = "B" -> "b" [] OTHER -> c

\* str.lower()
Lower(s) == [i \in 1..Len(s) |-> LowerChar(s[i])]

RECURSIVE LStrip(_)
LStrip(s) == IF s # <<>> /\ Head(s) \in Whitespace THEN LStrip(Tail(s)) ELSE s

RECURSIVE RStrip(_)
RStrip(s) == IF s # <<>> /\ s[Len(s)] \in Whitespace
             THEN RStrip(SubSeq(s, 1, Len(s) - 1)) ELSE s

\* mutant: nothing is trimmed
Strip_none(s) == s

\* str.strip()
Strip(s) == RStrip(LStrip(s))

\* len(str.split()): the number of maximal runs of non-whitespace
Words(s) == Cardinality({i \in 1..Len(s) :
                 /\ s[i] \notin Whitespace
                 /\ (i = 1 \/ s[i - 1] \in Whitespace)})

Rep(c, n) == [i \in 1..n |-> c]

(***************************************************************************)
(* Caching (handler.py lines 195-234)                                      *)
(***************************************************************************)
\* dict.get(k, default)
DictGet(d, k, default) == IF k \in DOMAIN d THEN d[k] ELSE default

\* hashlib.sha256(...).hexdigest()[:32]: a digest, taken to be collision-free
Sha256Hex32(s) == <<"sha256", s>>

\* mutant: the text is not lowercased
get_cache_key_caseSensitive(q) == Sha256Hex32(Strip(q))

\* get_cache_key
get_cache_key(q) == Sha256Hex32(Strip(Lower(q)))

\* table.get_item(Key={"cache_key": k}): the items found under k
get_item(table, k) == {i \in table : i.cache_key = k}

\* mutant: an item is added beside the one with the same key
put_item_keep(table, item) == table \cup {item}

\* table.put_item(Item=item): replaces the item with the same primary key
put_item(table, item) == {i \in table : i.cache_key # item.cache_key} \cup {item}

\* mutant: an entry is still served at the instant it expires
LaterOrEqual(x, t) == x * TicksPerSecond >= t

\* x > time.time() for an x in whole seconds
LaterThan(x, t) == x * TicksPerSecond > t

\* int(time.time() + CACHE_TTL)
ExpiresAt(t) == (t + CACHE_TTL * TicksPerSecond) \div TicksPerSecond

\* mutant: the exception of table.get_item is not caught
get_cached_response_uncaught(table, k, enabled, t, readFails) ==
  IF ~enabled THEN None
  ELSE IF readFails THEN Raised
  ELSE LET found == get_item(table, k) IN
       IF found = {} THEN None
       ELSE LET item == CHOOSE i \in found : TRUE IN
            IF LaterThan(DictGet(item, "expires_at", 0), t)
            THEN DictGet(item, "response", None) ELSE None

\* get_cached_response; readFails: table.get_item raises, and the
\* except clause turns that into None
get_cached_response(table, k, enabled, t, readFails) ==
  IF ~enabled THEN None
  ELSE IF readFails THEN None
  ELSE LET found == get_item(table, k) IN
       IF found = {} THEN None
       ELSE LET item == CHOOSE i \in found : TRUE IN
            IF LaterThan(DictGet(item, "expires_at", 0), t)
            THEN DictGet(item, "response", None) ELSE None

\* a call that returned, leaving the table as given
Returned(table) == [raised |-> FALSE, table |-> table]

\* mutant: the TTL is not added to the expiry
cache_response_noTtl(table, k, resp, enabled, t, writeFails) ==
  IF ~enabled THEN Returned(table)
  ELSE IF writeFails THEN Returned(table)
  ELSE Returned(put_item(table, [cache_key |-> k, response |-> resp,
                                 expires_at |-> t \div TicksPerSecond]))

\* cache_response: the table afterwards; writeFails: table.put_item raises,
\* and the except clause swallows it
cache_response(table, k, resp, enabled, t, writeFails) ==
  IF ~enabled THEN Returned(table)
  ELSE IF writeFails THEN Returned(table)
  ELSE Returned(put_item(table, [cache_key |-> k, response |-> resp,
                                 expires_at |-> ExpiresAt(t)]))

\* Python truth value of a cached response (None and {} are false)
EmptyDict == [k \in {} |-> None]
Truthy(x) == x # None /\ x # EmptyDict

(***************************************************************************)
(* Search (handler.py lines 153-188)                                       *)
(***************************************************************************)
\* the records of the index: id -> metadata
ChunkIds == {"c1", "c2", "c3"}
Metadata(id) ==
  CASE id = "c1" -> [document_id |-> "d1", text |-> "t1", filename |-> "f1.pdf"]
    [] id = "c2" -> [document_id |-> "d2", text |-> "t2"]
    [] OTHER     -> [text |-> "t3", filename |-> "f3.md"]

\* scores the backend may report (none ends in 5: round() has no tie to break)
Scores == {6996, 7000, 7014}

IsDescending(ms) == \A i \in 1..(Len(ms) - 1) : ms[i].score >= ms[i + 1].score

\* response.matches: at most top_k distinct records, best first;
\* all the backend can answer with up to MaxMatches records
MatchSeqs(n) ==
  { [i \in 1..n |-> [id |-> f[i].id, score |-> f[i].score,
                     metadata |-> Metadata(f[i].id)]] :
      f \in {g \in [1..n -> [id : ChunkIds, score : Scores]] :
               /\ \A i, j \in 1..n : i # j => g[i].id # g[j].id
               /\ IsDescending(g)} }

BackendMatches ==
  UNION {MatchSeqs(n) : n \in 0..(IF MaxMatches < TOP_K THEN MaxMatches ELSE TOP_K)}

\* mutant: a score equal to the threshold is dropped
search_pinecone_strict(ms) ==
  LET kept == SelectSeq(ms, LAMBDA m : m.score > SIMILARITY_THRESHOLD) IN
  [i \in 1..Len(kept) |->
     [chunk_id    |-> kept[i].id,
      document_id |-> DictGet(kept[i].metadata, "document_id", ""),
      text        |-> DictGet(kept[i].metadata, "text", ""),
      score       |-> kept[i].score,
      metadata    |-> kept[i].metadata]]

\* search_pinecone, given the backend's response.matches
search_pinecone(ms) ==
  LET kept == SelectSeq(ms, LAMBDA m : m.score >= SIMILARITY_THRESHOLD) IN
  [i \in 1..Len(kept) |->
     [chunk_id    |-> kept[i].id,
      document_id |-> DictGet(kept[i].metadata, "document_id", ""),
      text        |-> DictGet(kept[i].metadata, "text", ""),
      score       |-> kept[i].score,
      metadata    |-> kept[i].metadata]]

\* a response with no record, one with a record on each side of the
\* threshold, and one with two records above it
Match(id, sc) == [id |-> id, score |-> sc, metadata |-> Metadata(id)]
PipelineMatches ==
  {<<>>, <<Match("c1", 7014), Match("c2", 6996)>>,
   <<Match("c2", 7014), Match("c1", 7000)>>}

(***************************************************************************)
(* Context, response, metrics (handler.py lines 241-251, 311-354)          *)
(***************************************************************************)
\* round(score, 3), in units of 1/10000
Round3(x) == ((x + 5) \div 10) * 10

\* the context is either the fixed sentinel sentence or the joined blocks
NoDocuments == [sentinel |-> TRUE, blocks |-> <<>>]

\* mutant: the blocks are numbered from 0
build_context_fromZero(results) ==
  IF results = <<>> THEN NoDocuments
  ELSE [sentinel |-> FALSE,
        blocks |-> [i \in 1..Len(results) |->
                      [n |-> i - 1, text |-> results[i].text]]]

\* "\n\n".join(f"[{i}] {result.text}"): the numbered blocks, in order
build_context(results) ==
  IF results = <<>> THEN NoDocuments
  ELSE [sentinel |-> FALSE,
        blocks |-> [i \in 1..Len(results) |->
                      [n |-> i, text |-> results[i].text]]]

build_sources(results) ==
  [i \in 1..Len(results) |->
     [document_id |-> results[i].document_id,
      filename    |-> DictGet(results[i].metadata, "filename",
                              results[i].document_id),
      score       |-> Round3(results[i].score),
      chunk_id    |-> results[i].chunk_id]]

build_response(ans, srcs, results) ==
  [answer |-> ans, sources |-> srcs, context_used |-> Len(results)]

\* calculate_query_cost, in units of 1e-8 USD, rounded to 6 decimals
calculate_query_cost(emb_tokens, llm_toks) ==
  (((emb_tokens * 2 + llm_toks * 40) + 50) \div 100) * 100

MsPerTick == 1000 \div TicksPerSecond

\* mutant: a cache hit is charged like an embedding call
HitMetrics_charged(t, t0) ==
  [embedding_ms |-> 0, search_ms |-> 0, llm_ms |-> 0,
   total_ms |-> (t - t0) * MsPerTick, tokens_used |-> 1,
   cost_usd |-> calculate_query_cost(1, 0), cache_hit |-> TRUE]

HitMetrics(t, t0) ==
  [embedding_ms |-> 0, search_ms |-> 0, llm_ms |-> 0,
   total_ms |-> (t - t0) * MsPerTick, tokens_used |-> 0, cost_usd |-> 0,
   cache_hit |-> TRUE]

MissMetrics(t, t0, e_ms, s_ms, l_ms, emb10, llm_toks) ==
  [embedding_ms |-> e_ms, search_ms |-> s_ms, llm_ms |-> l_ms,
   total_ms |-> (t - t0) * MsPerTick,
   tokens_used |-> (emb10 + 10 * llm_toks) \div 10,
   cost_usd |-> calculate_query_cost(emb10 \div 10, llm_toks),
   cache_hit |-> FALSE]

(***************************************************************************)
(* Inputs                                                                  *)
(***************************************************************************)
\* every text of up to MaxKeyLen characters
KeyAlphabet == {"a", "A", "b", " ", "\t"}
KeyTexts == UNION {[1..n -> KeyAlphabet] : n \in 0..MaxKeyLen}

Long(n) == Rep("a", n)

\* values of body["query"]; NoQueryKey: the body has no "query"
RawQueries ==
  {NoQueryKey, <<>>, <<" ">>, <<"a">>, <<" ", "A", "\t">>, <<"b">>}

\* queries around the length limit
LimitQueries ==
  {<<>>, <<"\t", " ">>, Long(MAX_QUERY_LEN),
   <<" ">> \o Long(MAX_QUERY_LEN) \o <<"\t">>, Long(MAX_QUERY_LEN + 1),
   <<" ">> \o Long(MAX_QUERY_LEN + 1)}

Answers == {"answer", "NO_RELEVANT_INFORMATION"}
LlmTokens == {120}

\* the instants at which the clock is observed: the start, one tick later,
\* and one tick before, at, and one tick after a TTL from the start
LongAdvance == CACHE_TTL * TicksPerSecond - 1
ClockValues == {0, 1, LongAdvance, LongAdvance + 1, LongAdvance + 2}
RemoteCall == {"EMBED", "SEARCH", "GENERATE"}

InFlight == {"CACHE_CHECK", "EMBED", "SEARCH", "CONTEXT_BUILD", "GENERATE",
             "CACHE_WRITE"}
Finished == {"DONE", "FAILED", "REJECTED", "ABORTED"}

\* mutant: the context is never built
Successor_skipContext(stage) ==
  CASE stage = "CACHE_CHECK"   -> "EMBED"
    [] stage = "EMBED"         -> "SEARCH"
    [] stage = "SEARCH"        -> "GENERATE"
    [] stage = "GENERATE"      -> "CACHE_WRITE"
    [] OTHER                   -> "DONE"

\* mutant: the cache entry is written before the answer is generated
Successor_writeFirst(stage) ==
  CASE stage = "CACHE_CHECK"   -> "EMBED"
    [] stage = "EMBED"         -> "SEARCH"
    [] stage = "SEARCH"        -> "CONTEXT_BUILD"
    [] stage = "CONTEXT_BUILD" -> "CACHE_WRITE"
    [] stage = "CACHE_WRITE"   -> "GENERATE"
    [] OTHER                   -> "DONE"

\* mutant: the embedding call is made again after it returned
Successor_embedAgain(stage) ==
  CASE stage = "CACHE_CHECK"   -> "EMBED"
    [] stage = "EMBED"         -> "EMBED"
    [] stage = "SEARCH"        -> "CONTEXT_BUILD"
    [] stage = "CONTEXT_BUILD" -> "GENERATE"
    [] stage = "GENERATE"      -> "CACHE_WRITE"
    [] OTHER                   -> "DONE"

\* the statement order of process_query: the stage that follows a stage
Successor(stage) ==
  CASE stage = "CACHE_CHECK"   -> "EMBED"
    [] stage = "EMBED"         -> "SEARCH"
    [] stage = "SEARCH"        -> "CONTEXT_BUILD"
    [] stage = "CONTEXT_BUILD" -> "GENERATE"
    [] stage = "GENERATE"      -> "CACHE_WRITE"
    [] OTHER                   -> "DONE"

\* mutant: a query of exactly the maximum length is refused
Validate_offByOne(q) ==
  IF q = <<>> THEN "Missing 'query' parameter"
  ELSE IF Len(q) >= MAX_QUERY_LEN THEN "Query too long (max 1000 chars)"
  ELSE "ok"

\* handler, lines 386-399
Validate(q) ==
  IF q = <<>> THEN "Missing 'query' parameter"
  ELSE IF Len(q) > MAX_QUERY_LEN THEN "Query too long (max 1000 chars)"
  ELSE "ok"

NoWrite == [status |-> "none", at |-> NoTime]

NoCalls == [cache_get |-> 0, embed |-> 0, search |-> 0, generate |-> 0,
            cache_put |-> 0]

Called(what) == [calls EXCEPT ![what] = @ + 1]

(***************************************************************************)
(* Initial state: a freshly loaded module, an empty cache table            *)
(***************************************************************************)
InitHandler ==
  /\ cacheEnabled \in BOOLEAN
  /\ cacheTable = {}
  /\ now = 0
  /\ runs = 0
  /\ pc = "idle"
  /\ raw = NoQueryKey
  /\ query = <<>>
  /\ start_time = NoTime
  /\ stage_start = NoTime
  /\ cache_key = NoKey
  /\ embedding_tokens10 = 0
  /\ embed_ms = NoTime
  /\ search_ms = NoTime
  /\ llm_ms = NoTime
  /\ llm_tokens = 0
  /\ matches = <<>>
  /\ search_results = <<>>
  /\ context = None
  /\ sources = <<>>
  /\ response = None
  /\ metrics = None
  /\ result = None
  /\ trace = <<>>
  /\ calls = NoCalls
  /\ cacheAtStart = {}
  /\ cacheRead = "none"
  /\ cacheWrite = NoWrite
  /\ prev = None

\* no vector store object constructed, no call made
InitStore ==
  /\ batch_size = DEFAULT_BATCH_SIZE
  /\ pineIndex = {}
  /\ pgTable = {}
  /\ lastCall = NoCall
  /\ latest = {}

\* chunk_text not called
NotChunked == [done |-> FALSE, chunks |-> <<>>, closes |-> <<>>,
               entered |-> <<>>]

InitChunk ==
  /\ chunk_in = None
  /\ chunk_out = NotChunked

\* generate_response not called
NotGenerated == [done |-> FALSE, query |-> "", context |-> "",
                 history |-> [given |-> FALSE, turns |-> <<>>],
                 messages |-> <<>>]

\* no connection object constructed, no thread using one
NoClient == [built |-> FALSE]

\* no request filter, and neither lambda invoked
InitFlow ==
  /\ filter_metadata = [given |-> FALSE, items |-> <<>>]
  /\ config = [VECTOR_DB_TYPE |-> "pinecone", SQS_QUEUE_URL |-> TRUE,
               BATCH_SIZE |-> EMBED_BATCH_SIZE]
  /\ docTable = {}
  /\ queue = <<>>
  /\ ingestion = [pc |-> "idle"]
  /\ embedder = [pc |-> "idle"]

InitAux ==
  /\ generation = NotGenerated
  /\ client = NoClient
  /\ InitFlow

Init ==
  /\ InitHandler
  /\ key_in = <<>>
  /\ key_out = <<>>
  /\ InitStore
  /\ InitChunk
  /\ InitAux

pipelineVars == <<start_time, stage_start, cache_key, embedding_tokens10,
                  embed_ms, search_ms, llm_ms, llm_tokens, matches, search_results,
                  context, sources, response, metrics, trace, calls, cacheWrite,
                  cacheRead>>

envVars == <<cacheEnabled, runs, raw, query, cacheAtStart, prev, key_in,
             key_out, storeVars, chunkVars, auxVars>>

\* the handler's return values (lines 388-432)
BadRequest(msg) == [statusCode |-> 400, body |-> [error |-> msg]]
\* mutant: the exception leaves the handler, and the Lambda runtime reports
\* an invocation error instead of a response of the handler
InternalError_unhandled(msg) ==
  [statusCode |-> 502, body |-> [errorMessage |-> msg, errorType |-> "Exception"]]
InternalError(msg) == [statusCode |-> 500, body |-> [error |-> msg]]
\* body: {"query": query, **response, "metrics": {...}}
Ok(q, resp, m) == [statusCode |-> 200,
                   body |-> [query |-> q, response |-> resp, metrics |-> m]]

\* a stored "response" attribute that is no dict (a string, a number, a
\* list) is kept apart from the dicts by its python_type
NotAMapping == [python_type |-> "str"]
IsMapping(x) == "python_type" \notin DOMAIN x

\* lines 401-432 on a cache hit: {"query": query, **response, ...} raises
\* TypeError when response is no mapping, and the except clause returns 500
HitResult(q, cached, m) ==
  IF IsMapping(cached) THEN Ok(q, cached, m) ELSE InternalError("TypeError")

(***************************************************************************)
(* handler, lines 375-399: parse, strip, validate                          *)
(***************************************************************************)
Receive(r) ==
  /\ pc \in Finished \cup {"idle"}
  /\ runs < MaxRuns
  /\ runs' = runs + 1
  /\ raw' = r
  /\ llm_tokens' = 0
  /\ prev' = IF pc = "DONE" /\ cacheWrite.status = "ok"
             THEN [query |-> query, response |-> response,
                   search_results |-> search_results,
                   stored_at |-> cacheWrite.at]
             ELSE None
  /\ cacheAtStart' = cacheTable
  /\ LET q == Strip(IF r = NoQueryKey THEN <<>> ELSE r) IN
     /\ query' = q
     /\ IF Validate(q) # "ok"
        THEN /\ pc' = "REJECTED"
             /\ result' = BadRequest(Validate(q))
        ELSE /\ pc' = "CACHE_CHECK"
             /\ result' = None
  /\ start_time' = NoTime
  /\ stage_start' = NoTime
  /\ cache_key' = NoKey
  /\ embedding_tokens10' = 0
  /\ embed_ms' = NoTime
  /\ search_ms' = NoTime
  /\ llm_ms' = NoTime
  /\ llm_tokens' = 0
  /\ matches' = <<>>
  /\ search_results' = <<>>
  /\ context' = None
  /\ sources' = <<>>
  /\ response' = None
  /\ metrics' = None
  /\ trace' = <<>>
  /\ calls' = NoCalls
  /\ cacheWrite' = NoWrite
  /\ cacheRead' = "none"
  /\ UNCHANGED <<cacheEnabled, cacheTable, now, key_in, key_out, storeVars,
                 chunkVars, auxVars>>

(***************************************************************************)
(* process_query, lines 275-294: CACHE_CHECK                               *)
(***************************************************************************)
CacheCheck ==
  /\ pc = "CACHE_CHECK"
  /\ \E readFails \in (IF cacheEnabled THEN BOOLEAN ELSE {FALSE}) :
       LET k      == get_cache_key(query)
           cached == get_cached_response(cacheTable, k, cacheEnabled, now,
                                         readFails)
       IN  /\ cache_key' = k
           /\ cacheRead' = IF ~cacheEnabled THEN "disabled"
                           ELSE IF readFails THEN "failed" ELSE "ok"
           /\ start_time' = now
           /\ trace' = Append(trace, "CACHE_CHECK")
           /\ calls' = IF cacheEnabled THEN Called("cache_get") ELSE calls
           /\ IF cached = Raised
              THEN /\ pc' = "FAILED"
                   /\ result' = InternalError("cache read")
                   /\ UNCHANGED <<response, metrics, stage_start>>
              ELSE IF Truthy(cached)
              THEN /\ response' = cached
                   /\ metrics' = HitMetrics(now, now)
                   /\ result' = HitResult(query, cached,
                                          HitMetrics(now, now))
                   /\ pc' = IF IsMapping(cached) THEN "DONE" ELSE "FAILED"
                   /\ stage_start' = stage_start
              ELSE /\ pc' = Successor("CACHE_CHECK")
                   /\ stage_start' = now
                   /\ UNCHANGED <<response, metrics, result>>
  /\ UNCHANGED <<embedding_tokens10, embed_ms, search_ms, llm_ms, llm_tokens,
                 matches, search_results, context, sources, cacheWrite>>
  /\ UNCHANGED <<envVars, cacheTable, now>>

(***************************************************************************)
(* process_query, lines 296-300: EMBED                                     *)
(***************************************************************************)
Embed ==
  /\ pc = "EMBED"
  /\ trace' = Append(trace, "EMBED")
  /\ calls' = Called("embed")
  /\ \E ok \in BOOLEAN :
       IF ok
       THEN /\ embedding_tokens10' = Words(query) * 13
            /\ embed_ms' = (now - stage_start) * MsPerTick
            /\ stage_start' = now
            /\ pc' = Successor("EMBED")
            /\ result' = result
       ELSE /\ pc' = "FAILED"
            /\ result' = InternalError("embedding")
            /\ UNCHANGED <<embedding_tokens10, embed_ms, stage_start>>
  /\ UNCHANGED <<start_time, cache_key, search_ms, llm_ms, llm_tokens,
                 matches, search_results, context, sources, response, metrics,
                 cacheWrite, cacheRead>>
  /\ UNCHANGED <<envVars, cacheTable, now>>

(***************************************************************************)
(* process_query, lines 302-309: SEARCH                                    *)
(***************************************************************************)
SearchFrom(backend) ==
  /\ pc = "SEARCH"
  /\ trace' = Append(trace, "SEARCH")
  /\ calls' = Called("search")
  /\ \E ok \in BOOLEAN :
       IF ok
       THEN \E ms \in backend :
              /\ matches' = ms
              /\ search_results' = search_pinecone(ms)
              /\ search_ms' = (now - stage_start) * MsPerTick
              /\ pc' = Successor("SEARCH")
              /\ result' = result
       ELSE /\ pc' = "FAILED"
            /\ result' = InternalError("search")
            /\ UNCHANGED <<matches, search_results, search_ms>>
  /\ UNCHANGED <<start_time, stage_start, cache_key, embedding_tokens10,
                 embed_ms, llm_ms, llm_tokens, context, sources, response,
                 metrics, cacheWrite, cacheRead>>
  /\ UNCHANGED <<envVars, cacheTable, now>>

(***************************************************************************)
(* process_query, lines 311-327: CONTEXT_BUILD                             *)
(***************************************************************************)
ContextBuild ==
  /\ pc = "CONTEXT_BUILD"
  /\ trace' = Append(trace, "CONTEXT_BUILD")
  /\ context' = build_context(search_results)
  /\ sources' = build_sources(search_results)
  /\ stage_start' = now
  /\ pc' = Successor("CONTEXT_BUILD")
  /\ UNCHANGED <<start_time, cache_key, embedding_tokens10, embed_ms,
                 search_ms, llm_ms, llm_tokens, matches, search_results,
                 response, metrics, result, calls, cacheWrite, cacheRead>>
  /\ UNCHANGED <<envVars, cacheTable, now>>

(***************************************************************************)
(* process_query, lines 329-339: GENERATE and the response dict            *)
(***************************************************************************)
Generate ==
  /\ pc = "GENERATE"
  /\ trace' = Append(trace, "GENERATE")
  /\ calls' = Called("generate")
  /\ \E ok \in BOOLEAN :
       IF ok
       THEN \E ans \in Answers, toks \in LlmTokens :
              /\ llm_ms' = (now - stage_start) * MsPerTick
              /\ llm_tokens' = toks
              /\ response' = build_response(ans, sources, search_results)
              /\ pc' = Successor("GENERATE")
              /\ result' = result
       ELSE /\ pc' = "FAILED"
            /\ result' = InternalError("generation")
            /\ UNCHANGED <<llm_ms, llm_tokens, response>>
  /\ UNCHANGED <<start_time, stage_start, cache_key, embedding_tokens10,
                 embed_ms, search_ms, matches, search_results, context,
                 sources, metrics, cacheWrite, cacheRead>>
  /\ UNCHANGED <<envVars, cacheTable, now>>

(***************************************************************************)
(* process_query, lines 341-356, and handler, lines 405-424: CACHE_WRITE,  *)
(* the metrics, the 200 response                                           *)
(***************************************************************************)
CacheWrite ==
  /\ pc = "CACHE_WRITE"
  /\ trace' = Append(trace, "CACHE_WRITE")
  /\ calls' = IF cacheEnabled THEN Called("cache_put") ELSE calls
  /\ \E writeFails \in (IF cacheEnabled THEN BOOLEAN ELSE {FALSE}) :
       LET written == cache_response(cacheTable, cache_key, response,
                                     cacheEnabled, now, writeFails)
           m == MissMetrics(now, start_time, embed_ms, search_ms, llm_ms,
                            embedding_tokens10, llm_tokens)
       IN  /\ cacheWrite' = [status |-> IF ~cacheEnabled THEN "disabled"
                                        ELSE IF writeFails THEN "failed"
                                        ELSE "ok",
                             at |-> now]
           /\ IF written.raised
              THEN /\ pc' = "FAILED"
                   /\ result' = InternalError("cache write")
                   /\ UNCHANGED <<cacheTable, metrics>>
              ELSE /\ cacheTable' = written.table
                   /\ metrics' = m
                   /\ result' = Ok(query, response, m)
                   /\ pc' = Successor("CACHE_WRITE")
  /\ UNCHANGED <<start_time, stage_start, cache_key, embedding_tokens10,
                 embed_ms, search_ms, llm_ms, llm_tokens, matches,
                 search_results, context, sources, response, cacheRead>>
  /\ UNCHANGED <<envVars, now>>

(***************************************************************************)
(* The invocation is abandoned while a stage is in flight (the caller      *)
(* gives up, the Lambda times out): nothing after that point runs          *)
(***************************************************************************)
Abort ==
  /\ pc \in InFlight
  /\ pc' = "ABORTED"
  /\ UNCHANGED <<pipelineVars, envVars, cacheTable, now, result>>

(***************************************************************************)
(* time.time() advances                                                    *)
(***************************************************************************)
Tick ==
  /\ \/ /\ pc \in RemoteCall
        /\ now + 1 \in ClockValues
        /\ now' = now + 1
     \/ /\ pc \in Finished \cup {"idle"}
        /\ \E t \in ClockValues : t > now /\ now' = t
  /\ UNCHANGED <<pipelineVars, envVars, cacheTable, pc, result>>

Pipeline ==
  \/ CacheCheck
  \/ Embed
  \/ SearchFrom(PipelineMatches)
  \/ ContextBuild
  \/ Generate
  \/ CacheWrite
  \/ Abort
  \/ Tick

Next ==
  \/ \E r \in RawQueries : Receive(r)
  \/ Pipeline

Spec == Init /\ [][Next]_vars

\* one invocation, with every response the backend can give
NextSearch ==
  \/ \E r \in RawQueries : runs = 0 /\ Receive(r)
  \/ CacheCheck
  \/ Embed
  \/ SearchFrom(BackendMatches)
  \/ ContextBuild
  \/ Generate
  \/ CacheWrite
  \/ Abort
  \/ Tick

SpecSearch == Init /\ [][NextSearch]_vars

\* the same handler, fed queries around the length limit
NextLimit ==
  \/ \E r \in LimitQueries : Receive(r)
  \/ Pipeline

SpecLimit == Init /\ [][NextLimit]_vars

(***************************************************************************)
(* One invocation that finds in the cache table an item this code did not  *)
(* write: the "response" attribute missing, empty, no dict, a dict of      *)
(* another shape, or a response as cache_response stores it                *)
(***************************************************************************)
PayloadQuery == <<"a">>
StoredResponse == [answer |-> "answer", sources |-> <<>>, context_used |-> 0]
Payloads == {EmptyDict, NotAMapping, [foo |-> "bar"], StoredResponse}
PayloadItems ==
  {[cache_key |-> get_cache_key(PayloadQuery), expires_at |-> 2 * CACHE_TTL]}
  \cup {[cache_key |-> get_cache_key(PayloadQuery), response |-> p,
          expires_at |-> 2 * CACHE_TTL] : p \in Payloads}

\* the item is in the table before the invocation starts
StorePayload ==
  /\ pc = "idle"
  /\ cacheEnabled
  /\ cacheTable = {}
  /\ \E item \in PayloadItems : cacheTable' = put_item(cacheTable, item)
  /\ UNCHANGED <<pipelineVars, envVars, now, pc, result>>

NextPayload ==
  \/ StorePayload
  \/ runs = 0 /\ cacheTable # {} /\ Receive(PayloadQuery)
  \/ Pipeline

SpecPayload == Init /\ [][NextPayload]_vars

(***************************************************************************)
(* get_cache_key on its own: two texts in, their two keys out              *)
(***************************************************************************)
InitKey ==
  /\ InitHandler
  /\ key_in \in KeyTexts \X KeyTexts
  /\ key_out = <<>>
  /\ InitStore
  /\ InitChunk
  /\ InitAux

ComputeKeys ==
  /\ key_out = <<>>
  /\ key_out' = <<get_cache_key(key_in[1]), get_cache_key(key_in[2])>>
  /\ UNCHANGED <<pipelineVars, cacheEnabled, runs, raw, query, cacheAtStart,
                 prev, key_in, cacheTable, now, pc, result, storeVars,
                 chunkVars, auxVars>>

NextKey == ComputeKeys

SpecKey == InitKey /\ [][NextKey]_vars

(***************************************************************************)
(* Vector stores (src/src/layers/common/vector_db.py): PineconeDB and      *)
(* PgVectorDB, driven by the same calls.  Vectors are pairs of integers,   *)
(* a similarity is in units of 1/10000.                                    *)
(***************************************************************************)
MaxRecords == 3
MaxUpsert == 2
MaxBatchSize == 2
MaxTopK == 2
MaxIds == 2

Min(a, b) == IF a < b THEN a ELSE b

\* s[:n]
Take(s, n) == SubSeq(s, 1, Min(n, Len(s)))

\* {**base, **over}
MergeDict(base, over) ==
  [k \in DOMAIN base \cup DOMAIN over |->
     IF k \in DOMAIN over THEN over[k] ELSE base[k]]

\* VectorRecord
VectorRecord(id, vector, text, metadata, score) ==
  [id |-> id, vector |-> vector, text |-> text, metadata |-> metadata,
   score |-> score]

\* the records callers upsert: two with id "a" and different text, the
\* second longer than the metadata limit, and one whose metadata has its
\* own "text"
Records ==
  {VectorRecord("a", <<3, 4>>, <<"o", "n", "e">>, [dept |-> "HR"], None),
   VectorRecord("a", <<4, 3>>, Long(PINECONE_TEXT_LIMIT + 1),
                [dept |-> "IT", lang |-> "el"], None),
   VectorRecord("b", <<5, 0>>, <<"s">>,
                [dept |-> "HR", text |-> <<"m">>], None)}

RecordSeqs(longest) == UNION {[1..n -> Records] : n \in 0..longest}

\* ids given to delete; "z" is never upserted
Ids == {"a", "b", "z"}
IdSeqs == UNION {[1..n -> Ids] : n \in 0..MaxIds}

QueryVectors == {<<3, 4>>, <<5, 0>>}

\* filter_metadata: absent (None), or a dict as its items in order
NoFilter == [given |-> FALSE, items |-> <<>>]
Filter(items) == [given |-> TRUE, items |-> items]
Filters ==
  {NoFilter, Filter(<<>>), Filter(<<[key |-> "dept", value |-> "HR"]>>),
   Filter(<<[key |-> "dept", value |-> "IT"],
            [key |-> "lang", value |-> "el"]>>)}

\* `if filter_metadata:`
FilterGiven(f) == f.given /\ f.items # <<>>

\* every key/value of the filter is in the metadata
FilterMatch(metadata, items) ==
  \A i \in 1..Len(items) :
    /\ items[i].key \in DOMAIN metadata
    /\ metadata[items[i].key] = items[i].value

Dot(u, v) == u[1] * v[1] + u[2] * v[2]
Norm(v) == CHOOSE n \in 0..Dot(v, v) : n * n = Dot(v, v)

\* cosine similarity; the cosine distance `<=>` is 1 minus it
CosineSimilarity(u, v) == (Dot(u, v) * 10000) \div (Norm(u) * Norm(v))
CosineDistance(u, v) == 10000 - CosineSimilarity(u, v)

\* a call's outcome: a value returned (Raised is an exception)
Ret(v) == [raised |-> FALSE, value |-> v]

\* the elements of S as a sequence, those with the greater key first
RECURSIVE Ranked(_, _)
Ranked(S, key) ==
  IF S = {} THEN <<>>
  ELSE LET best == CHOOSE x \in S : \A y \in S : key[x] >= key[y] IN
       <<best>> \o Ranked(S \ {best}, key)

(***************************************************************************)
(* PineconeDB (lines 57-150)                                               *)
(***************************************************************************)
\* lines 87-94: the dict built for a record; the record's own metadata
\* comes last and wins over "text"
PineconeVector(r) ==
  [id |-> r.id, values |-> r.vector,
   metadata |-> MergeDict([text |-> Take(r.text, PINECONE_TEXT_LIMIT)],
                          r.metadata)]

\* mutant: a last batch that is not full is never sent
Batches_fullOnly(vectors, size) ==
  [b \in 1..(Len(vectors) \div size) |->
     SubSeq(vectors, (b - 1) * size + 1, b * size)]

\* lines 98-99: vectors[i:i + batch_size] for i in range(0, len, batch_size)
Batches(vectors, size) ==
  [b \in 1..((Len(vectors) + size - 1) \div size) |->
     SubSeq(vectors, (b - 1) * size + 1, Min(b * size, Len(vectors)))]

\* mutant: a vector is added beside the one with its id
IndexUpsert_append(index, batch) ==
  index \cup {batch[i] : i \in 1..Len(batch)}

\* index.upsert(vectors=batch) of the service: each vector, in order, takes
\* the place of the one with its id
RECURSIVE IndexUpsert(_, _)
IndexUpsert(index, batch) ==
  IF batch = <<>> THEN index
  ELSE IndexUpsert({v \in index : v.id # Head(batch).id} \cup {Head(batch)},
                   Tail(batch))

\* lines 97-101: the loop over the batches; upserted += len(batch)
RECURSIVE SendBatches(_, _, _)
SendBatches(index, batches, upserted) ==
  IF batches = <<>> THEN [index |-> index, upserted |-> upserted]
  ELSE SendBatches(IndexUpsert(index, Head(batches)), Tail(batches),
                   upserted + Len(Head(batches)))

\* PineconeDB.upsert: the value returned, the index afterwards, and the
\* batches given to index.upsert
PineconeUpsert(index, records, size) ==
  IF records = <<>> THEN [ret |-> Ret(0), index |-> index, sent |-> <<>>]
  ELSE LET vectors == [i \in 1..Len(records) |-> PineconeVector(records[i])]
           batches == Batches(vectors, size)
           done    == SendBatches(index, batches, 0)
       IN  [ret |-> Ret(done.upserted), index |-> done.index,
            sent |-> batches]

\* index.query of the service: the top_k vectors that pass the filter, the
\* most similar first (any order among equal scores)
IndexQuery(index, query_vector, top_k, filter) ==
  LET pass   == {v \in index : FilterMatch(v.metadata, filter.items)}
      score  == [v \in pass |-> CosineSimilarity(v.values, query_vector)]
      ranked == Take(Ranked(pass, score), top_k)
  IN  [i \in 1..Len(ranked) |->
         [id |-> ranked[i].id, score |-> score[ranked[i]],
          metadata |-> ranked[i].metadata]]

\* PineconeDB.search
PineconeSearch(index, query_vector, top_k, filter) ==
  LET found == IndexQuery(index, query_vector, top_k,
                          IF FilterGiven(filter) THEN filter ELSE NoFilter)
  IN  Ret([i \in 1..Len(found) |->
             VectorRecord(found[i].id, <<>>,
                          DictGet(found[i].metadata, "text", <<>>),
                          found[i].metadata, found[i].score)])

\* the distinct ids of a sequence of ids
IdSet(ids) == {ids[i] : i \in 1..Len(ids)}

\* PineconeDB.delete: index.delete(ids=ids) removes the vectors that have
\* one of the ids; the value returned is len(ids)
PineconeDelete(index, ids) ==
  IF ids = <<>> THEN [ret |-> Ret(0), index |-> index]
  ELSE [ret |-> Ret(Len(ids)), index |-> {v \in index : v.id \notin IdSet(ids)}]

\* PineconeDB.get_stats: total_vectors
PineconeStats(index) == Ret([total_vectors |-> Cardinality(index)])

(***************************************************************************)
(* PgVectorDB (lines 157-307)                                              *)
(***************************************************************************)
\* mutant: a plain INSERT, which leaves a row with the same id in place
PgUpsertRow_insert(table, r) ==
  table \cup {[id |-> r.id, embedding |-> r.vector, text |-> r.text,
               metadata |-> r.metadata]}

\* lines 214-221: INSERT ... ON CONFLICT (id) DO UPDATE
PgUpsertRow(table, r) ==
  {x \in table : x.id # r.id}
    \cup {[id |-> r.id, embedding |-> r.vector, text |-> r.text,
           metadata |-> r.metadata]}

RECURSIVE PgUpsertRows(_, _)
PgUpsertRows(table, records) ==
  IF records = <<>> THEN table
  ELSE PgUpsertRows(PgUpsertRow(table, Head(records)), Tail(records))

\* PgVectorDB.upsert
PgUpsert(table, records) ==
  IF records = <<>> THEN [ret |-> Ret(0), table |-> table]
  ELSE [ret |-> Ret(Len(records)), table |-> PgUpsertRows(table, records)]

\* a positional parameter of cur.execute, with the SQL type it is sent as
Param(type, value) == [type |-> type, value |-> value]

\* lines 244-246: params.insert(-1, value) for each item of the filter
RECURSIVE InsertValues(_, _)
InsertValues(params, items) ==
  IF items = <<>> THEN params
  ELSE InsertValues(SubSeq(params, 1, Len(params) - 1)
                      \o <<Param("text", Head(items).value)>>
                      \o <<params[Len(params)]>>,
                    Tail(items))

\* lines 240-255: params = [query_vector, top_k], the filter values
\* inserted, and `params + [query_vector]` given to cur.execute
PgSearchParams(query_vector, top_k, filter) ==
  InsertValues(<<Param("vector", query_vector), Param("int", top_k)>>,
               IF FilterGiven(filter) THEN filter.items ELSE <<>>)
    \o <<Param("vector", query_vector)>>

\* lines 245-254: the %s of the statement, in the order of its text: the
\* score expression, one per filter condition, ORDER BY, LIMIT
PgSearchPlaceholders(filter) ==
  LET items == IF FilterGiven(filter) THEN filter.items ELSE <<>> IN
  <<[role |-> "score", key |-> ""]>>
    \o [i \in 1..Len(items) |-> [role |-> "filter", key |-> items[i].key]]
    \o <<[role |-> "order", key |-> ""], [role |-> "limit", key |-> ""]>>

\* the type PostgreSQL accepts at a placeholder: `embedding <=> %s` takes a
\* vector, `metadata->>'k' = %s` a text, LIMIT an integer
PlaceholderType(role) ==
  CASE role = "limit"  -> "int"
    [] role = "filter" -> "text"
    [] OTHER           -> "vector"

\* the statement of lines 249-255 run with its parameters bound in
\* order; PostgreSQL refuses a parameter of the wrong type
PgSelect(table, holes, params) ==
  IF \/ Len(holes) # Len(params)
     \/ \E i \in 1..Len(holes) : params[i].type # PlaceholderType(holes[i].role)
  THEN Raised
  ELSE LET n      == Len(holes)
           items  == [i \in 1..(n - 3) |->
                        [key |-> holes[i + 1].key, value |-> params[i + 1].value]]
           pass   == {x \in table : FilterMatch(x.metadata, items)}
           near   == [x \in pass |->
                        0 - CosineDistance(x.embedding, params[n - 1].value)]
           rows   == Take(Ranked(pass, near), params[n].value)
       IN  Ret([i \in 1..Len(rows) |->
                  VectorRecord(rows[i].id, <<>>, rows[i].text, rows[i].metadata,
                               10000 - CosineDistance(rows[i].embedding,
                                                      params[1].value))])

\* PgVectorDB.search
PgSearch(table, query_vector, top_k, filter) ==
  PgSelect(table, PgSearchPlaceholders(filter),
           PgSearchParams(query_vector, top_k, filter))

\* PgVectorDB.delete: DELETE ... WHERE id IN (...), and cur.rowcount
PgDelete(table, ids) ==
  IF ids = <<>> THEN [ret |-> Ret(0), table |-> table]
  ELSE LET gone == {x \in table : x.id \in IdSet(ids)} IN
       [ret |-> Ret(Cardinality(gone)), table |-> table \ gone]

\* PgVectorDB.get_stats: SELECT COUNT(*)
PgStats(table) == Ret([total_vectors |-> Cardinality(table)])

(***************************************************************************)
(* The same call made on both stores                                       *)
(***************************************************************************)
queryVars == <<pipelineVars, cacheEnabled, cacheTable, now, runs, pc, raw,
               query, result, cacheAtStart, prev, key_in, key_out>>

Call(name, args, pineRet, pgRet, sent) ==
  [name |-> name, args |-> args, pine |-> pineRet, pg |-> pgRet,
   sent |-> sent, pineBefore |-> pineIndex, pgBefore |-> pgTable]

\* per id, the record of its latest upsert, and whether an earlier upsert
\* of that id had another text
RECURSIVE LatestAfter(_, _)
LatestAfter(known, records) ==
  IF records = <<>> THEN known
  ELSE LET r   == Head(records)
           old == {e \in known : e.id = r.id}
       IN  LatestAfter((known \ old)
                         \cup {[id |-> r.id, record |-> r,
                                replaced |-> \E e \in old :
                                  e.replaced \/ e.record.text # r.text]},
                       Tail(records))

InitVectorStores ==
  /\ InitHandler
  /\ cacheEnabled
  /\ key_in = <<>>
  /\ key_out = <<>>
  /\ InitChunk
  /\ InitAux
  /\ InitStore

Upsert(records) ==
  LET p == PineconeUpsert(pineIndex, records, batch_size)
      g == PgUpsert(pgTable, records)
  IN  /\ pineIndex' = p.index
      /\ pgTable' = g.table
      /\ latest' = LatestAfter(latest, records)
      /\ lastCall' = Call("upsert", records, p.ret, g.ret, p.sent)
      /\ UNCHANGED <<queryVars, chunkVars, auxVars, batch_size>>

Search(query_vector, top_k, filter) ==
  /\ lastCall' = Call("search",
                      [query_vector |-> query_vector, top_k |-> top_k,
                       filter |-> filter],
                      PineconeSearch(pineIndex, query_vector, top_k, filter),
                      PgSearch(pgTable, query_vector, top_k, filter), <<>>)
  /\ UNCHANGED <<queryVars, chunkVars, auxVars, batch_size, pineIndex, pgTable, latest>>

Delete(ids) ==
  LET p == PineconeDelete(pineIndex, ids)
      g == PgDelete(pgTable, ids)
  IN  /\ pineIndex' = p.index
      /\ pgTable' = g.table
      /\ latest' = {r \in latest : r.id \notin IdSet(ids)}
      /\ lastCall' = Call("delete", ids, p.ret, g.ret, <<>>)
      /\ UNCHANGED <<queryVars, chunkVars, auxVars, batch_size>>

GetStats ==
  /\ lastCall' = Call("get_stats", <<>>, PineconeStats(pineIndex),
                      PgStats(pgTable), <<>>)
  /\ UNCHANGED <<queryVars, chunkVars, auxVars, batch_size, pineIndex, pgTable, latest>>

NextStore ==
  \/ \E records \in RecordSeqs(MaxUpsert) : Upsert(records)
  \/ \E q \in QueryVectors, k \in 1..MaxTopK, f \in Filters : Search(q, k, f)
  \/ \E ids \in IdSeqs : Delete(ids)
  \/ GetStats

SpecStore == InitVectorStores /\ [][NextStore]_vars

\* PineconeDB constructed with a small batch_size, and longer upserts
InitBatch ==
  /\ InitHandler
  /\ cacheEnabled
  /\ key_in = <<>>
  /\ key_out = <<>>
  /\ InitChunk
  /\ InitAux
  /\ batch_size \in 1..MaxBatchSize
  /\ pineIndex = {}
  /\ pgTable = {}
  /\ lastCall = NoCall
  /\ latest = {}

NextBatch == \E records \in RecordSeqs(MaxRecords) : Upsert(records)

SpecBatch == InitBatch /\ [][NextBatch]_vars

(***************************************************************************)
(* chunk_text (src/src/lambdas/ingestion/handler.py lines 156-199)         *)
(***************************************************************************)
MaxTextLen == 5
MaxChunkSize == 3
MaxOverlap == 3

Max(a, b) == IF a > b THEN a ELSE b

\* s[n:]
Drop(s, n) == SubSeq(s, n + 1, Len(s))

\* the characters after which whitespace ends a sentence: [.!?;]
Boundary == {".", "!", "?", ";"}

\* the first position from i on that holds no whitespace
RECURSIVE SkipWhitespace(_, _)
SkipWhitespace(text, i) ==
  IF i <= Len(text) /\ text[i] \in Whitespace
  THEN SkipWhitespace(text, i + 1) ELSE i

\* re.compile(r"(?<=[.!?;])\s+").split(text), from position i on with the
\* piece read so far
RECURSIVE SplitFrom(_, _, _)
SplitFrom(text, i, piece) ==
  IF i > Len(text) THEN <<piece>>
  ELSE IF text[i] \in Whitespace /\ i > 1 /\ text[i - 1] \in Boundary
  THEN <<piece>> \o SplitFrom(text, SkipWhitespace(text, i), <<>>)
  ELSE SplitFrom(text, i + 1, Append(piece, text[i]))

\* line 164
SplitSentences(text) == SplitFrom(text, 1, <<>>)

\* TextChunk
TextChunk(text, chunk_index, start_char, end_char) ==
  [text |-> text, chunk_index |-> chunk_index, start_char |-> start_char,
   end_char |-> end_char]

\* mutant: the chunks are numbered from 1
ChunkIndex_fromOne(chunks) == Len(chunks) + 1

\* chunk_index=len(chunks)
ChunkIndex(chunks) == Len(chunks)

\* mutant: an empty buffer is closed too
ChunkFull_evenEmpty(current_text, sentence, chunk_size) ==
  Len(current_text) + Len(sentence) > chunk_size

\* line 173: len(current_text) + len(sentence) > chunk_size and current_text
ChunkFull(current_text, sentence, chunk_size) ==
  /\ Len(current_text) + Len(sentence) > chunk_size
  /\ current_text # <<>>

\* mutant: the sentence that closes a chunk is left out of the next buffer
NextBuffer_withoutSentence(current_text, overlap, sentence) ==
  Drop(current_text, Max(0, Len(current_text) - overlap)) \o <<" ">>

\* mutant: the whole closed buffer is carried into the next one
NextBuffer_wholeBuffer(current_text, overlap, sentence) ==
  current_text \o <<" ">> \o sentence

\* mutant: the sentence is appended without the space
NextBuffer_noSpace(current_text, overlap, sentence) ==
  Drop(current_text, Max(0, Len(current_text) - overlap)) \o sentence

\* lines 182-183: current_text[overlap_start:] + " " + sentence
NextBuffer(current_text, overlap, sentence) ==
  Drop(current_text, Max(0, Len(current_text) - overlap))
    \o <<" ">> \o sentence

\* lines 171-187: the loop body for sentences[i] onwards; lines 189-196:
\* the last chunk.  Beside the loop's own variables the state records, for
\* each close, the buffer closed and the buffer that follows it, and for
\* each sentence the number of chunks closed before it entered the buffer
RECURSIVE ChunkLoop(_, _, _, _, _)
ChunkLoop(sentences, i, chunk_size, overlap, st) ==
  IF i > Len(sentences)
  THEN IF Strip(st.current_text) # <<>>
       THEN [st EXCEPT !.chunks =
               Append(st.chunks,
                      TextChunk(Strip(st.current_text), ChunkIndex(st.chunks),
                                st.current_start, st.char_pos))]
       ELSE st
  ELSE LET sentence == sentences[i] IN
       IF ChunkFull(st.current_text, sentence, chunk_size)
       THEN LET next_text == NextBuffer(st.current_text, overlap, sentence)
                chunks == Append(st.chunks,
                                 TextChunk(Strip(st.current_text),
                                           ChunkIndex(st.chunks),
                                           st.current_start, st.char_pos))
            IN  ChunkLoop(sentences, i + 1, chunk_size, overlap,
                  [chunks |-> chunks,
                   current_text  |-> next_text,
                   current_start |-> st.char_pos
                                     - (Len(next_text) - Len(sentence) - 1),
                   char_pos      |-> st.char_pos + Len(sentence) + 1,
                   closes |-> Append(st.closes,
                                     [closed |-> st.current_text,
                                      sentence |-> sentence,
                                      next |-> next_text]),
                   entered |-> Append(st.entered, Len(chunks))])
       ELSE ChunkLoop(sentences, i + 1, chunk_size, overlap,
              [chunks |-> st.chunks,
               current_text  |-> IF st.current_text # <<>>
                                 THEN st.current_text \o <<" ">> \o sentence
                                 ELSE sentence,
               current_start |-> st.current_start,
               char_pos      |-> st.char_pos + Len(sentence) + 1,
               closes |-> st.closes,
               entered |-> Append(st.entered, Len(st.chunks))])

\* chunk_text, with the record of its loop
chunk_run(text, chunk_size, overlap) ==
  ChunkLoop(SplitSentences(text), 1, chunk_size, overlap,
            [chunks |-> <<>>, current_text |-> <<>>, current_start |-> 0,
             char_pos |-> 0, closes |-> <<>>, entered |-> <<>>])

chunk_text(text, chunk_size, overlap) ==
  chunk_run(text, chunk_size, overlap).chunks

\* every text of up to MaxTextLen characters over letters, a sentence end
\* and a space
ChunkAlphabet == {"a", "b", ".", " "}
ChunkTexts == UNION {[1..n -> ChunkAlphabet] : n \in 0..MaxTextLen}

InitChunkText ==
  /\ InitHandler
  /\ cacheEnabled
  /\ key_in = <<>>
  /\ key_out = <<>>
  /\ InitStore
  /\ chunk_in \in [text : ChunkTexts, chunk_size : 0..MaxChunkSize,
                   overlap : 0..MaxOverlap]
  /\ chunk_out = NotChunked
  /\ InitAux

ChunkText ==
  /\ ~chunk_out.done
  /\ LET run == chunk_run(chunk_in.text, chunk_in.chunk_size,
                          chunk_in.overlap)
     IN  chunk_out' = [done |-> TRUE,
                       chunks |-> chunk_text(chunk_in.text, chunk_in.chunk_size,
                                             chunk_in.overlap),
                       closes |-> run.closes, entered |-> run.entered]
  /\ UNCHANGED <<queryVars, storeVars, auxVars, chunk_in>>

NextChunk == ChunkText

SpecChunk == InitChunkText /\ [][NextChunk]_vars

(***************************************************************************)
(* generate_response (src/src/lambdas/query/handler.py lines 91-136): the  *)
(* message list it sends to the generation service.  A message content is  *)
(* a tuple of the texts it is made of.                                     *)
(***************************************************************************)
MaxHistory == 3

\* line 111: {"role": "system", "content": system_prompt}
SystemMessage == [role |-> "system", content |-> <<"system_prompt">>]

\* lines 112-119: the user turn, made of the context and the query
UserMessage(q, ctx) == [role |-> "user", content |-> <<ctx, q>>]

\* history is None (given = FALSE) or a list of turns
NoHistory == [given |-> FALSE, turns |-> <<>>]
Turns == {[role |-> "user", content |-> <<"h1">>],
          [role |-> "assistant", content |-> <<"h2">>],
          [role |-> "user", content |-> <<"h3">>]}
Histories ==
  {NoHistory} \cup
  {[given |-> TRUE, turns |-> t] :
     t \in UNION {[1..n -> Turns] : n \in 0..MaxHistory}}

\* Python truth value of history: None and [] are false
HistoryGiven(history) == history.given /\ history.turns # <<>>

\* mutant: the history is put after the current user turn
WithHistory_appended(messages, turns) == messages \o turns

\* line 124: [messages[0]] + history + [messages[-1]]
WithHistory(messages, turns) ==
  <<messages[1]>> \o turns \o <<messages[Len(messages)]>>

\* lines 110-124: the messages argument of chat.completions.create
generate_messages(q, ctx, history) ==
  LET messages == <<SystemMessage, UserMessage(q, ctx)>> IN
  IF HistoryGiven(history) THEN WithHistory(messages, history.turns)
  ELSE messages

GenQueries == {"q1", "q2"}
GenContexts == {"NO_DOCUMENTS", "[1] t1"}

InitGenerate ==
  /\ InitHandler
  /\ cacheEnabled
  /\ key_in = <<>>
  /\ key_out = <<>>
  /\ InitStore
  /\ InitChunk
  /\ InitFlow
  /\ client = NoClient
  /\ generation \in [done : {FALSE}, query : GenQueries,
                      context : GenContexts, history : Histories,
                      messages : {<<>>}]

GenerateMessages ==
  /\ ~generation.done
  /\ generation' =
       [generation EXCEPT
          !.done = TRUE,
          !.messages = generate_messages(generation.query,
                                         generation.context,
                                         generation.history)]
  /\ UNCHANGED <<queryVars, storeVars, chunkVars, client, flowVars>>

NextGenerate == GenerateMessages

SpecGenerate == InitGenerate /\ [][NextGenerate]_vars

(***************************************************************************)
(* Lazily created connections: PineconeDB.index (vector_db.py lines        *)
(* 71-78), and in the same way PgVectorDB.conn (lines 171-182),            *)
(* get_openai_client and get_pinecone_index (query/handler.py lines 70-76, *)
(* 143-150).  Threads of one process use the connection; a getter takes no *)
(* lock, so its statements interleave with those of another thread.        *)
(* Connection 0 is None, connection k the k-th one constructed.            *)
(***************************************************************************)
MaxThreads == 2
MaxUses == 2

Threads == 1..MaxThreads

InitClient ==
  /\ InitHandler
  /\ cacheEnabled
  /\ key_in = <<>>
  /\ key_out = <<>>
  /\ InitStore
  /\ InitChunk
  /\ InitFlow
  /\ generation = NotGenerated
  /\ client = [built |-> TRUE,
               _index |-> 0,
               constructed |-> 0,
               at |-> [t \in Threads |-> "idle"],
               new |-> [t \in Threads |-> 0],
               uses |-> [t \in Threads |-> 0],
               returned |-> {},
               overlapped |-> FALSE]

ClientRest == <<queryVars, storeVars, chunkVars, generation, flowVars>>

\* a thread reads self.index
BeginUse(t) ==
  /\ client.at[t] = "idle"
  /\ client.uses[t] < MaxUses
  /\ client' = [client EXCEPT
                  !.at[t] = "test",
                  !.overlapped = @ \/ \E u \in Threads \ {t} :
                                         client.at[u] # "idle"]
  /\ UNCHANGED ClientRest

\* line 74: if self._index is None
TestNone(t) ==
  /\ client.at[t] = "test"
  /\ client' = [client EXCEPT
                  !.at[t] = IF client._index = 0 THEN "construct"
                            ELSE "return"]
  /\ UNCHANGED ClientRest

\* lines 75-77, right-hand side: Pinecone(api_key=...).Index(index_name)
Construct(t) ==
  /\ client.at[t] = "construct"
  /\ client' = [client EXCEPT
                  !.constructed = @ + 1,
                  !.new[t] = client.constructed + 1,
                  !.at[t] = "assign"]
  /\ UNCHANGED ClientRest

\* line 77: self._index = ...
AssignIndex(t) ==
  /\ client.at[t] = "assign"
  /\ client' = [client EXCEPT !._index = client.new[t], !.at[t] = "return"]
  /\ UNCHANGED ClientRest

\* line 78: return self._index
ReturnIndex(t) ==
  /\ client.at[t] = "return"
  /\ client' = [client EXCEPT
                  !.returned = @ \cup {client._index},
                  !.uses[t] = @ + 1,
                  !.at[t] = "idle"]
  /\ UNCHANGED ClientRest

NextClient ==
  \E t \in Threads :
    \/ BeginUse(t)
    \/ TestNone(t)
    \/ Construct(t)
    \/ AssignIndex(t)
    \/ ReturnIndex(t)

SpecClient == InitClient /\ [][NextClient]_vars

(***************************************************************************)
(* PgVectorDB.conn and _ensure_table (vector_db.py lines 171-203): one     *)
(* PgVectorDB object used by one thread, operation after operation.  The   *)
(* database keeps its schema; a new object starts with _conn = None.       *)
(***************************************************************************)
MaxConnUses == 3
MaxObjects == 2

PgOperations == {"upsert", "search", "delete", "get_stats"}

\* lines 187-202: CREATE TABLE IF NOT EXISTS, CREATE INDEX IF NOT EXISTS
EnsureTable(schema) == schema \cup {"table", "index"}

NoUse == [op |-> "none", attempted |-> FALSE, ensuredBefore |-> FALSE,
          reached |-> FALSE, raised |-> FALSE]

InitConn ==
  /\ InitHandler
  /\ cacheEnabled
  /\ key_in = <<>>
  /\ key_out = <<>>
  /\ InitStore
  /\ InitChunk
  /\ InitFlow
  /\ generation = NotGenerated
  /\ client = [built |-> TRUE,
               _conn |-> "None",
               ensured |-> FALSE,
               schema |-> {},
               objects |-> 1,
               uses |-> 0,
               ensureFailed |-> FALSE,
               last |-> NoUse]

\* an operation that gets a cursor from self.conn (lines 211, 236, 275,
\* 286) and runs its statement
UseConn(op) ==
  /\ client.built
  /\ client.uses < MaxConnUses
  /\ IF client._conn = "None"
     THEN \E step \in {"connect raises", "ensure raises", "ok"} :
            client' =
              [client EXCEPT
                 !.uses = @ + 1,
                 \* line 178 assigns before lines 179-180 run
                 !._conn = IF step = "connect raises" THEN "None"
                           ELSE "open",
                 !.ensured = step = "ok",
                 !.schema = IF step = "ok" THEN EnsureTable(@) ELSE @,
                 !.ensureFailed = @ \/ step = "ensure raises",
                 !.last = [op |-> op,
                           attempted |-> step # "connect raises",
                           ensuredBefore |-> step = "ok",
                           reached |-> step = "ok",
                           raised |-> step # "ok"]]
     ELSE \* line 174 is false: the connection is returned as it is
          \E raises \in BOOLEAN :
            /\ raises => ~client.ensured
            /\ client' =
                 [client EXCEPT
                    !.uses = @ + 1,
                    !.last = [op |-> op,
                              attempted |-> FALSE,
                              ensuredBefore |-> client.ensured,
                              reached |-> TRUE,
                              raised |-> raises]]
  /\ UNCHANGED ClientRest

\* another PgVectorDB object on the same database (line 169)
NewObject ==
  /\ client.built
  /\ client.objects < MaxObjects
  /\ client.last.op # "none"
  /\ client' = [client EXCEPT !.objects = @ + 1, !._conn = "None",
                               !.ensured = FALSE, !.uses = 0]
  /\ UNCHANGED ClientRest

NextConn ==
  \/ \E op \in PgOperations : UseConn(op)
  \/ NewObject

SpecConn == InitConn /\ [][NextConn]_vars

(***************************************************************************)
(* process_query with a request filter (query/handler.py lines 254-356,    *)
(* 401-410): the cache is looked up by the query text, then the index is   *)
(* searched under the filter                                               *)
(***************************************************************************)
MaxRequests == 3

FlowQueries == {<<"a">>, <<"b">>}

\* body.get("filter")
FlowFilters ==
  {NoFilter, Filter(<<[key |-> "dept", value |-> "HR"]>>),
   Filter(<<[key |-> "dept", value |-> "IT"]>>)}

\* create_query_embedding: the vector the embedding model gives a query
QueryEmbedding(q) == IF q = <<"a">> THEN <<3, 4>> ELSE <<4, 3>>

\* the chunks the index holds, of two departments
FlowIndex ==
  {[id |-> "c1", values |-> <<3, 4>>,
    metadata |-> [document_id |-> "d1", text |-> "t1", dept |-> "HR"]],
   [id |-> "c2", values |-> <<4, 3>>,
    metadata |-> [document_id |-> "d2", text |-> "t2", dept |-> "IT"]],
   [id |-> "c3", values |-> <<5, 0>>,
    metadata |-> [document_id |-> "d3", text |-> "t3", dept |-> "HR"]]}

InitFilter ==
  /\ InitHandler
  /\ key_in = <<>>
  /\ key_out = <<>>
  /\ batch_size = DEFAULT_BATCH_SIZE
  /\ pineIndex = FlowIndex
  /\ pgTable = {}
  /\ lastCall = NoCall
  /\ latest = {}
  /\ InitChunk
  /\ InitAux

\* search_pinecone(query_embedding, filter_metadata=filter_metadata): the
\* filter is passed to index.query only when it is truthy
SearchFiltered(q, f) ==
  search_pinecone(IndexQuery(pineIndex, QueryEmbedding(q), TOP_K,
                             IF FilterGiven(f) THEN f ELSE NoFilter))

\* process_query(query, history, filter): a hit returns what is cached
\* under the key of the query text; a miss searches, answers and caches
FilteredQuery(q, f) ==
  /\ runs < MaxRequests
  /\ runs' = runs + 1
  /\ LET k       == get_cache_key(q)
         cached  == get_cached_response(cacheTable, k, cacheEnabled, now,
                                        FALSE)
         results == SearchFiltered(q, f)
         srcs    == build_sources(results)
         resp    == build_response("answer", srcs, results)
     IN  /\ query' = q
         /\ filter_metadata' = f
         /\ cache_key' = k
         /\ IF Truthy(cached)
            THEN /\ cacheRead' = "ok"
                 /\ response' = cached
                 /\ UNCHANGED <<search_results, sources, cacheTable>>
            ELSE /\ cacheRead' = "miss"
                 /\ search_results' = results
                 /\ sources' = srcs
                 /\ response' = resp
                 /\ cacheTable' =
                      cache_response(cacheTable, k, resp, cacheEnabled, now,
                                     FALSE).table
  /\ pc' = "DONE"
  /\ UNCHANGED <<cacheEnabled, now, raw, start_time, stage_start,
                 embedding_tokens10, embed_ms, search_ms, llm_ms, llm_tokens,
                 matches, context, metrics, result, trace, calls,
                 cacheAtStart, cacheWrite, prev, key_in, key_out, storeVars,
                 chunkVars, generation, client, docVars>>

NextFilter == \E q \in FlowQueries, f \in FlowFilters : FilteredQuery(q, f)

SpecFilter == InitFilter /\ [][NextFilter]_vars

(***************************************************************************)
(* The document pipeline: process_document of the ingestion lambda         *)
(* (ingestion/handler.py lines 225-327) and the handler of the embedding   *)
(* lambda (embedding/handler.py lines 117-149, 217-368), which run         *)
(* concurrently, joined by the SQS queue and the metadata table            *)
(***************************************************************************)
MaxDeliveries == 2

\* the environment of the two lambdas; SQS_QUEUE_URL: whether it is set
Configs ==
  [VECTOR_DB_TYPE : {"pinecone", "pgvector"}, SQS_QUEUE_URL : BOOLEAN,
   BATCH_SIZE : {1, EMBED_BATCH_SIZE}]

\* generate_doc_id of the one object uploaded
DocId == "d1"

\* doc_metadata of process_document
DocMetadata == [filename |-> "f1.txt", file_type |-> "txt",
                s3_key |-> "docs/f1.txt"]

\* chunk_text(clean) of the object's text
DocChunks == <<[text |-> <<"x">>, chunk_index |-> 0],
               [text |-> <<"y">>, chunk_index |-> 1]>>

\* table.put_item(Item=item) on the metadata table
DocPutItem(table, item) ==
  {i \in table : i.document_id # item.document_id} \cup {item}

\* table.update_item(Key={"document_id": id}, SET ...): sets the attributes
\* of the item, which it creates when there is none
DocUpdateItem(table, id, attrs) ==
  LET old  == {i \in table : i.document_id = id}
      base == IF old = {} THEN [document_id |-> id]
              ELSE CHOOSE i \in old : TRUE
  IN  (table \ old) \cup {MergeDict(base, attrs)}

\* the status the table has for the document
DocStatus ==
  IF \E i \in docTable : i.document_id = DocId
  THEN (CHOOSE i \in docTable : i.document_id = DocId).status
  ELSE "absent"

\* asdict(metadata) without the None values (created_at left out)
MetadataItem(file_size, chunk_count, status) ==
  [document_id |-> DocId, filename |-> DocMetadata.filename,
   file_type |-> DocMetadata.file_type, file_size |-> file_size,
   s3_key |-> DocMetadata.s3_key, chunk_count |-> chunk_count,
   status |-> status]

\* the message send_to_queue builds
QueueMessage(chunks) ==
  [document_id |-> DocId, chunks |-> chunks, metadata |-> DocMetadata]

\* sha256(f"{document_id}:{chunk_index}:{text[:100]}")[:16]
generate_chunk_id(document_id, chunk_index, text) ==
  [sha256_16 |-> [document_id |-> document_id, chunk_index |-> chunk_index,
                  text |-> Take(text, CHUNK_ID_PREFIX)]]

\* what the embedding model may return for the two chunks; it need not
\* return the same vectors twice
EmbeddingChoices == {<<<<3, 4>>, <<4, 3>>>>, <<<<4, 3>>, <<5, 0>>>>}

\* process_chunks, lines 253-271: one EmbeddingResult per pair of
\* zip(chunks, embeddings)
BuildResults(chunks, embeddings, document_id, doc_metadata) ==
  [i \in 1..Min(Len(chunks), Len(embeddings)) |->
     [chunk_id    |-> generate_chunk_id(document_id, chunks[i].chunk_index,
                                        chunks[i].text),
      document_id |-> document_id,
      vector      |-> embeddings[i],
      text        |-> chunks[i].text,
      metadata    |-> MergeDict(doc_metadata,
                                [chunk_index |-> chunks[i].chunk_index])]]

\* store_vectors_pinecone, lines 129-140: the dict built for a result
StoredVector(r) ==
  [id |-> r.chunk_id, values |-> r.vector,
   metadata |-> MergeDict([document_id |-> r.document_id,
                           text |-> Take(r.text, STORED_TEXT_LIMIT)],
                          r.metadata)]

\* what of the index a second processing is to leave as it was
Stored(index) ==
  [count |-> Cardinality(index),
   chunks |-> {[id |-> v.id, text |-> v.metadata.text,
                metadata |-> v.metadata] : v \in index}]

IdleEmbedder ==
  [pc |-> "idle", msg |-> 0, results |-> <<>>, embedded |-> FALSE,
   vectors_stored |-> 0, marked |-> "none", stores |-> 0,
   first |-> Stored({})]

InitDocs ==
  /\ InitHandler
  /\ key_in = <<>>
  /\ key_out = <<>>
  /\ InitStore
  /\ InitChunk
  /\ generation = NotGenerated
  /\ client = NoClient
  /\ filter_metadata = NoFilter
  /\ config \in Configs
  /\ docTable = {}
  /\ queue = <<>>
  /\ ingestion = [pc |-> "idle", chunks |-> <<>>]
  /\ embedder = IdleEmbedder

DocsRest == <<queryVars, batch_size, pgTable, latest, chunkVars, generation,
              client, filter_metadata, config>>

\* process_document, lines 273-285: download, extract, clean and chunk;
\* an object with no text raises ValueError
IngestStart(chunks) ==
  /\ ingestion.pc = "idle"
  /\ ingestion' = [pc |-> IF chunks = <<>> THEN "except" ELSE "send",
                   chunks |-> chunks]
  /\ UNCHANGED <<DocsRest, pineIndex, lastCall, docTable, queue, embedder>>

\* send_to_queue, lines 233-254: nothing is sent when SQS_QUEUE_URL is not
\* set; sent: whether sqs.send_message returns
SendToQueue(sent) ==
  /\ ingestion.pc = "send"
  /\ IF ~config.SQS_QUEUE_URL
     THEN /\ ingestion' = [ingestion EXCEPT !.pc = "save"]
          /\ UNCHANGED queue
     ELSE IF sent
     THEN /\ queue' = Append(queue, [body |-> QueueMessage(ingestion.chunks),
                                     deliveries |-> 0])
          /\ ingestion' = [ingestion EXCEPT !.pc = "save"]
     ELSE /\ ingestion' = [ingestion EXCEPT !.pc = "except"]
          /\ UNCHANGED queue
  /\ UNCHANGED <<DocsRest, pineIndex, lastCall, docTable, embedder>>

\* lines 299-311: save_metadata(status="processing"), after the message
\* was sent
SaveProcessing ==
  /\ ingestion.pc = "save"
  /\ docTable' = DocPutItem(docTable,
                            MetadataItem(1, Len(ingestion.chunks),
                                         "processing"))
  /\ ingestion' = [ingestion EXCEPT !.pc = "returned"]
  /\ UNCHANGED <<DocsRest, pineIndex, lastCall, queue, embedder>>

\* lines 313-327: the except clause saves status="failed" and re-raises
SaveFailed ==
  /\ ingestion.pc = "except"
  /\ docTable' = DocPutItem(docTable,
                            MergeDict(MetadataItem(0, 0, "failed"),
                                      [error |-> "Exception"]))
  /\ ingestion' = [ingestion EXCEPT !.pc = "raised"]
  /\ UNCHANGED <<DocsRest, pineIndex, lastCall, queue, embedder>>

\* the queue hands message i to the embedding lambda (a standard queue
\* delivers at least once); handler lines 344-351
Deliver(i) ==
  /\ embedder.pc \in {"idle", "returned", "raised"}
  /\ queue[i].deliveries < MaxDeliveries
  /\ queue' = [queue EXCEPT ![i].deliveries = @ + 1]
  /\ embedder' = [embedder EXCEPT
                    !.pc = IF queue[i].body.chunks = <<>> THEN "returned"
                           ELSE "process",
                    !.msg = i, !.results = <<>>, !.embedded = FALSE,
                    !.vectors_stored = 0, !.marked = "none"]
  /\ UNCHANGED <<DocsRest, pineIndex, lastCall, docTable, ingestion>>

\* process_chunks, lines 223-284; embeddings: what create_embeddings
\* returns, or that it raised, which the except clause turns into no result
ProcessChunks(embeddings) ==
  /\ embedder.pc = "process"
  /\ LET msg == queue[embedder.msg].body IN
     embedder' =
       [embedder EXCEPT
          !.pc = "store",
          !.embedded = ~embeddings.raised,
          !.results = IF embeddings.raised THEN <<>>
                      ELSE BuildResults(msg.chunks, embeddings.value,
                                        msg.document_id, msg.metadata)]
  /\ UNCHANGED <<DocsRest, pineIndex, lastCall, docTable, queue, ingestion>>

\* handler lines 356-361 with store_vectors_pinecone: nothing is stored
\* unless VECTOR_DB_TYPE is "pinecone"; sent: the batches index.upsert
\* takes before it raises, all of them when it does not
StoreVectors(sent) ==
  /\ embedder.pc = "store"
  /\ IF embedder.results = <<>> \/ config.VECTOR_DB_TYPE # "pinecone"
     THEN /\ sent = 0
          /\ embedder' = [embedder EXCEPT !.pc = "update"]
          /\ UNCHANGED pineIndex
     ELSE LET vectors == [i \in 1..Len(embedder.results) |->
                            StoredVector(embedder.results[i])]
              batches == Batches(vectors, config.BATCH_SIZE)
              done    == SendBatches(pineIndex, SubSeq(batches, 1, sent), 0)
          IN  /\ sent \in 0..Len(batches)
              /\ pineIndex' = done.index
              /\ IF sent = Len(batches)
                 THEN embedder' =
                        [embedder EXCEPT
                           !.pc = "update",
                           !.vectors_stored = done.upserted,
                           !.stores = @ + 1,
                           !.first = IF embedder.stores = 0
                                     THEN Stored(done.index) ELSE @]
                 ELSE embedder' = [embedder EXCEPT !.pc = "raised"]
  /\ UNCHANGED <<DocsRest, lastCall, docTable, queue, ingestion>>

\* handler lines 363-365 with update_document_status, lines 287-301;
\* written: whether table.update_item returns (its exception is swallowed)
UpdateStatus(written) ==
  /\ embedder.pc = "update"
  /\ LET status == IF embedder.vectors_stored > 0 THEN "completed"
                   ELSE "failed"
     IN  /\ docTable' =
              IF written
              THEN DocUpdateItem(docTable,
                                 queue[embedder.msg].body.document_id,
                                 [status |-> status,
                                  processed_chunks |->
                                    embedder.vectors_stored])
              ELSE docTable
         /\ embedder' = [embedder EXCEPT
                           !.pc = "returned",
                           !.marked = IF written THEN status ELSE "none"]
  /\ UNCHANGED <<DocsRest, pineIndex, lastCall, queue, ingestion>>

\* process_query's search, query/handler.py lines 302-309: the query lambda
\* calls search_pinecone whatever VECTOR_DB_TYPE is
QuerySearch ==
  /\ lastCall = NoCall
  /\ embedder.pc = "returned"
  /\ lastCall' = [name |-> "search", backend |-> "pinecone",
                  ret |-> search_pinecone(
                            IndexQuery(pineIndex, <<3, 4>>, TOP_K, NoFilter))]
  /\ UNCHANGED <<DocsRest, pineIndex, docTable, queue, ingestion, embedder>>

NextIngestion ==
  \/ \E chunks \in {<<>>, DocChunks} : IngestStart(chunks)
  \/ \E sent \in BOOLEAN : SendToQueue(sent)
  \/ SaveProcessing
  \/ SaveFailed

NextEmbedder ==
  \/ \E i \in 1..Len(queue) : Deliver(i)
  \/ \E embeddings \in {Ret(e) : e \in EmbeddingChoices} \cup {Raised} :
       ProcessChunks(embeddings)
  \/ \E sent \in 0..Len(DocChunks) : StoreVectors(sent)
  \/ \E written \in BOOLEAN : UpdateStatus(written)

NextDocs == NextIngestion \/ NextEmbedder \/ QuerySearch

SpecDocs == InitDocs /\ [][NextDocs]_vars

\* every step of either lambda is taken in the end, and the queue delivers
FairDocs ==
  /\ WF_vars(NextIngestion)
  /\ WF_vars(NextEmbedder)

SpecDocsFair == SpecDocs /\ FairDocs

(***************************************************************************)
(* Properties                                                              *)
(***************************************************************************)
MissPath == <<"CACHE_CHECK", "EMBED", "SEARCH", "CONTEXT_BUILD", "GENERATE",
              "CACHE_WRITE">>

IsPrefix(a, b) == Len(a) <= Len(b) /\ SubSeq(b, 1, Len(a)) = a

\* the item this invocation's lookup found under its key, if any
Looked(item) == /\ cacheRead = "ok"
                /\ item \in cacheAtStart
                /\ item.cache_key = cache_key

\* C1: every execution of process_query runs CACHE_CHECK and then either
\* finishes (hit) or runs EMBED, SEARCH, CONTEXT_BUILD, GENERATE, CACHE_WRITE
\* in that order, each once, none skipped, and then finishes.
C1_StageOrder ==
  /\ IsPrefix(trace, MissPath)
  /\ pc \in InFlight => pc = MissPath[Len(trace) + 1]
  /\ pc = "DONE" => \/ trace = <<"CACHE_CHECK">> /\ metrics.cache_hit
                    \/ trace = MissPath /\ ~metrics.cache_hit

C1_Witness == pc = "DONE" /\ trace = MissPath

\* C2: when the lookup finds an unexpired entry, process_query returns that
\* entry's response unchanged with cache_hit = true, zero stage times, zero
\* tokens and zero cost, and calls neither the embedding service, the vector
\* search, the generation service nor the cache write.
C2_CacheHitShortCircuit ==
  \A item \in cacheAtStart :
    (Looked(item) /\ item.expires_at * TicksPerSecond > start_time) =>
      /\ pc = "DONE"
      /\ response = item.response
      /\ result.statusCode = 200
      /\ result.body.response = item.response
      /\ metrics.cache_hit
      /\ result.body.metrics = metrics
      /\ metrics.embedding_ms = 0
      /\ metrics.search_ms = 0
      /\ metrics.llm_ms = 0
      /\ metrics.tokens_used = 0
      /\ metrics.cost_usd = 0
      /\ calls.embed = 0
      /\ calls.search = 0
      /\ calls.generate = 0
      /\ calls.cache_put = 0
      /\ cacheTable = cacheAtStart

C2_Witness ==
  /\ pc = "DONE"
  /\ metrics.cache_hit
  /\ response.sources # <<>>

\* C3: on the miss path no backend match with score below the threshold is
\* among the sources or in the context, every match at or above it is, and
\* the sources are in descending score order.
C3_ThresholdFilter ==
  (Len(trace) >= 4 /\ pc \in {"GENERATE", "CACHE_WRITE", "DONE"}) =>
    LET srcs == IF pc = "GENERATE" THEN sources ELSE response.sources
        low  == {i \in 1..Len(matches) : matches[i].score < 7000}
        high == {i \in 1..Len(matches) : matches[i].score >= 7000}
    IN  /\ \A i \in low :
             /\ \A j \in 1..Len(srcs) : srcs[j].chunk_id # matches[i].id
             /\ \A j \in 1..Len(context.blocks) :
                  context.blocks[j].text # matches[i].metadata.text
        /\ \A i \in high :
             /\ \E j \in 1..Len(srcs) : srcs[j].chunk_id = matches[i].id
             /\ \E j \in 1..Len(context.blocks) :
                  context.blocks[j].text = matches[i].metadata.text
        /\ Len(srcs) = Cardinality(high)
        /\ \A j \in 1..(Len(srcs) - 1) : srcs[j].score >= srcs[j + 1].score
        /\ pc = "DONE" => result.body.response.sources = srcs

C3_Witness ==
  /\ pc = "DONE"
  /\ Len(matches) = 2
  /\ matches[1].score = 7000
  /\ matches[2].score < 7000
  /\ Len(response.sources) = 1

\* the previous invocation stored the response of a search that found
\* nothing, and this invocation repeats its query text and reads the cache
RepeatOfEmptySearch ==
  /\ prev # None
  /\ prev.search_results = <<>>
  /\ prev.query = query
  /\ cacheRead = "ok"

FirstOfEmptySearch ==
  /\ pc = "DONE"
  /\ trace = MissPath
  /\ search_results = <<>>
  /\ cacheWrite.status = "ok"

StoresItsResponse ==
  /\ response.sources = <<>>
  /\ ~metrics.cache_hit
  /\ \E item \in cacheTable :
       item.cache_key = cache_key /\ item.response = response

ServesThePrevious ==
  /\ pc = "DONE"
  /\ metrics.cache_hit
  /\ response.answer = prev.response.answer
  /\ response.sources = prev.response.sources

\* whole seconds in t ticks
WholeSeconds(t) == t \div TicksPerSecond

\* C4: with the cache enabled and reachable and nothing found by the search,
\* the first execution returns no sources with cache_hit = false and stores
\* its response; an immediate repeat of the same text, one that starts before
\* the stored expiry (as every repeat up to CACHE_TTL - 1 seconds after the
\* write does), is a hit with the same answer and sources.
C4_RepeatIsHit ==
  /\ FirstOfEmptySearch => StoresItsResponse
  /\ (RepeatOfEmptySearch
        /\ start_time < TicksPerSecond
             * WholeSeconds(prev.stored_at + CACHE_TTL * TicksPerSecond))
     => ServesThePrevious

C4_Witness ==
  /\ RepeatOfEmptySearch
  /\ start_time > prev.stored_at
  /\ pc = "DONE"
  /\ metrics.cache_hit
  /\ response.sources = <<>>

\* C5: an execution that is abandoned or fails at EMBED, SEARCH,
\* CONTEXT_BUILD or GENERATE leaves the cache table as it was when the
\* execution started; the table differs only once generation has returned
\* and the execution has finished.
C5_NoPartialCacheEntry ==
  /\ pc \in {"FAILED", "ABORTED"} \cup InFlight => cacheTable = cacheAtStart
  /\ cacheTable # cacheAtStart =>
       /\ pc = "DONE"
       /\ trace = MissPath
       /\ calls.generate = 1
       /\ response.answer \in Answers

C5_Witness ==
  /\ pc = "FAILED"
  /\ trace[Len(trace)] = "GENERATE"
  /\ cacheAtStart # {}

\* C6: a lookup that reads an entry with expires_at <= now is a miss although
\* the entry is still in the table, and a lookup that reads an entry with
\* expires_at > now returns the stored response.
C6_ExpiredEntryIsMiss ==
  \A item \in cacheAtStart :
    Looked(item) =>
      /\ item.expires_at * TicksPerSecond <= start_time =>
           /\ ~(pc = "DONE" /\ metrics.cache_hit)
           /\ trace = <<"CACHE_CHECK">> => pc \in {"EMBED", "ABORTED"}
           /\ pc # "DONE" => item \in cacheTable
      /\ item.expires_at * TicksPerSecond > start_time =>
           /\ pc = "DONE"
           /\ metrics.cache_hit
           /\ response = item.response

C6_Witness ==
  \E item \in cacheAtStart :
    /\ Looked(item)
    /\ item.expires_at * TicksPerSecond = start_time
    /\ pc = "EMBED"
    /\ item \in cacheTable

OneItemPerKey ==
  \A i, j \in cacheTable : i.cache_key = j.cache_key => i = j

OtherKeysUnchanged ==
  {i \in cacheTable : i.cache_key # cache_key}
    = {i \in cacheAtStart : i.cache_key # cache_key}

\* C7 as stated: a put stores the response under the key with
\* expires_at = now + CACHE_TTL, replaces any entry of that key, and leaves
\* every other key alone.
C7_Original ==
  /\ OneItemPerKey
  /\ (pc = "DONE" /\ cacheWrite.status = "ok") =>
       /\ \E item \in cacheTable :
            /\ item.cache_key = cache_key
            /\ item.response = response
            /\ item.expires_at * TicksPerSecond
                 = cacheWrite.at + CACHE_TTL * TicksPerSecond
       /\ OtherKeysUnchanged

\* C7 (amended): as above, with expires_at = now + CACHE_TTL rounded down to
\* a whole second.
C7_PutOverwrites ==
  /\ OneItemPerKey
  /\ (pc = "DONE" /\ cacheWrite.status = "ok") =>
       /\ \E item \in cacheTable :
            /\ item.cache_key = cache_key
            /\ item.response = response
            /\ item.expires_at * TicksPerSecond
                 <= cacheWrite.at + CACHE_TTL * TicksPerSecond
            /\ cacheWrite.at + CACHE_TTL * TicksPerSecond
                 < (item.expires_at + 1) * TicksPerSecond
       /\ OtherKeysUnchanged

C7_Witness ==
  /\ pc = "DONE"
  /\ cacheWrite.status = "ok"
  /\ cacheWrite.at % TicksPerSecond # 0
  /\ \E old \in cacheAtStart :
       old.cache_key = cache_key /\ old.response # response

\* the number of whitespace characters at the start (from i on) and at the
\* end (up to i) of a text
RECURSIVE Leading(_, _)
Leading(t, i) ==
  IF i > Len(t) \/ t[i] \notin Whitespace THEN 0 ELSE 1 + Leading(t, i + 1)

RECURSIVE Trailing(_, _)
Trailing(t, i) ==
  IF i < 1 \/ t[i] \notin Whitespace THEN 0 ELSE 1 + Trailing(t, i - 1)

\* the number of characters from the first to the last non-whitespace one
CoreLen(t) ==
  IF Leading(t, 1) = Len(t) THEN 0
  ELSE Len(t) - Leading(t, 1) - Trailing(t, Len(t))

\* the text with leading and trailing whitespace removed
Trimmed(t) == [i \in 1..CoreLen(t) |-> t[Leading(t, 1) + i]]

\* two texts that are equal once trimmed and lowercased
SameNormalizedText(a, b) ==
  /\ Len(Trimmed(a)) = Len(Trimmed(b))
  /\ \A i \in 1..Len(Trimmed(a)) :
       LowerChar(Trimmed(a)[i]) = LowerChar(Trimmed(b)[i])

\* C8: two query texts get the same cache key exactly when they are equal
\* after lowercasing and trimming.
C8_KeyOfNormalizedText ==
  key_out # <<>> =>
    (key_out[1] = key_out[2] <=> SameNormalizedText(key_in[1], key_in[2]))

C8_Witness ==
  /\ key_out # <<>>
  /\ key_in[1] # key_in[2]
  /\ key_in[1] = <<" ", "A">>
  /\ key_out[1] = key_out[2]

StageErrors == {"embedding", "search", "generation"}

\* C9: a failed cache read is a miss, and the only failures after it are
\* those of the embedding, search or generation stage; a failed cache write
\* is swallowed, and the query returns its answer with status 200.
C9_CacheFailureNeverFailsQuery ==
  /\ cacheRead = "failed" =>
       /\ trace # <<>>
       /\ trace = <<"CACHE_CHECK">> => pc \in {"EMBED", "ABORTED"}
       /\ pc = "FAILED" =>
            /\ Len(trace) >= 2
            /\ result.statusCode = 500
            /\ result.body.error \in StageErrors
       /\ pc = "DONE" =>
            /\ trace = MissPath
            /\ ~metrics.cache_hit
            /\ result.statusCode = 200
  /\ cacheWrite.status = "failed" =>
       /\ pc = "DONE"
       /\ result.statusCode = 200
       /\ result.body.response = response
       /\ response.answer \in Answers

C9_Witness ==
  /\ cacheRead = "failed"
  /\ cacheWrite.status = "failed"
  /\ pc = "DONE"
  /\ cacheAtStart # {}

\* C10: a query that is empty or only whitespace, or longer than 1000
\* characters, is answered with status 400 and no cache read, embedding
\* call, vector search, generation call or cache write happens for it; a
\* query of 1 to 1000 characters is not refused.
C10_Validation ==
  runs > 0 =>
    LET n == IF raw = NoQueryKey THEN 0 ELSE CoreLen(raw) IN
    /\ (n = 0 \/ n > 1000) =>
         /\ pc = "REJECTED"
         /\ result.statusCode = 400
         /\ calls = NoCalls
         /\ trace = <<>>
         /\ cacheTable = cacheAtStart
    /\ (n >= 1 /\ n <= 1000) =>
         /\ pc # "REJECTED"
         /\ result = None \/ result.statusCode # 400

C10_Witness ==
  /\ pc = "REJECTED"
  /\ Len(query) = 1001
  /\ cacheTable # {}

\* the invocation ended in the handler's except clause, raised by this stage
FailedAt(stage) ==
  /\ pc = "FAILED"
  /\ trace # <<>>
  /\ trace[Len(trace)] = stage

\* C11: when the embedding call or the generation call raises, the handler
\* returns status 500 with a body holding only "error", no answer is
\* produced or cached, and every service was called at most once (the
\* failing one exactly once, the later ones never).
C11_StageFailureIsInternalError ==
  /\ (FailedAt("EMBED") \/ FailedAt("GENERATE")) =>
       /\ result.statusCode = 500
       /\ DOMAIN result.body = {"error"}
       /\ response = None
       /\ metrics = None
       /\ cacheTable = cacheAtStart
       /\ calls.cache_put = 0
       /\ IsPrefix(trace, MissPath)
  /\ FailedAt("EMBED") =>
       /\ result.body.error = "embedding"
       /\ calls.embed = 1 /\ calls.search = 0 /\ calls.generate = 0
  /\ FailedAt("GENERATE") =>
       /\ result.body.error = "generation"
       /\ calls.embed = 1 /\ calls.search = 1 /\ calls.generate = 1

C11_Witness ==
  /\ FailedAt("GENERATE")
  /\ result.statusCode = 500
  /\ sources # <<>>
  /\ runs = 2

\* C12: when the vector search raises, the pipeline goes on to CONTEXT_BUILD
\* with the "no relevant documents" sentinel and empty sources and returns
\* an answer; the query does not fail.
C12_SearchFailureDegrades ==
  (calls.search = 1 /\ Len(trace) >= 3 /\ search_ms = NoTime) =>
    /\ pc # "FAILED"
    /\ pc \in {"GENERATE", "CACHE_WRITE", "DONE"} =>
         context = NoDocuments /\ sources = <<>>
    /\ pc = "DONE" => result.statusCode = 200 /\ response.sources = <<>>

\* this invocation has passed CONTEXT_BUILD
ContextBuilt == \E k \in 1..Len(trace) : trace[k] = "CONTEXT_BUILD"

\* the backend's matches at or above the threshold, in the search order
Surviving == SelectSeq(matches, LAMBDA m : m.score >= SIMILARITY_THRESHOLD)

\* C27: after CONTEXT_BUILD, if no record survives the threshold the context
\* is the "no relevant documents" sentinel and there are no sources;
\* otherwise the context has one block per surviving record, numbered 1..n
\* in the search order, the i-th source describes the i-th block's record,
\* and the response's context_used is n.
C27_ContextAndSourcesAligned ==
  ContextBuilt =>
    LET n == Len(Surviving) IN
    /\ n = 0 => context = NoDocuments /\ sources = <<>>
    /\ n > 0 =>
         /\ ~context.sentinel
         /\ Len(context.blocks) = n
         /\ Len(sources) = n
         /\ \A i \in 1..n :
              /\ context.blocks[i].n = i
              /\ context.blocks[i].text =
                   DictGet(Surviving[i].metadata, "text", "")
              /\ sources[i].chunk_id = Surviving[i].id
              /\ sources[i].document_id =
                   DictGet(Surviving[i].metadata, "document_id", "")
              /\ sources[i].score = Round3(Surviving[i].score)
    /\ pc \in {"CACHE_WRITE", "DONE"} =>
         /\ response.context_used = n
         /\ response.sources = sources
    /\ pc = "DONE" =>
         /\ result.body.response.context_used = n
         /\ result.body.response.sources = sources

C27_Witness ==
  /\ pc = "DONE"
  /\ ContextBuilt
  /\ Len(Surviving) = 2
  /\ response.context_used = 2
  /\ context.blocks[2].n = 2
  /\ sources[2].chunk_id = matches[2].id

\* a response as process_query builds and stores it
WellFormed(x) == DOMAIN x = {"answer", "sources", "context_used"}

\* the item the lookup found holds no well-formed response
MalformedPayload(item) ==
  "response" \notin DOMAIN item \/ ~WellFormed(item.response)

\* C29: an unexpired cache item whose response is missing or is no
\* well-formed response mapping counts as no entry: the invocation is not a
\* cache hit, it goes on along the miss path, and it does not fail at the
\* lookup.
C29_MalformedPayloadIsMiss ==
  \A item \in cacheAtStart :
    (/\ Looked(item)
     /\ item.expires_at * TicksPerSecond > start_time
     /\ MalformedPayload(item)) =>
      /\ IsPrefix(trace, MissPath)
      /\ pc = "FAILED" => Len(trace) > 1
      /\ pc = "DONE" => trace = MissPath /\ ~metrics.cache_hit

\* the payloads that are false in Python are taken as a miss
FalsyPayloadIsMiss ==
  \A item \in cacheAtStart :
    (/\ Looked(item)
     /\ item.expires_at * TicksPerSecond > start_time
     /\ ("response" \notin DOMAIN item \/ item.response = EmptyDict)) =>
      /\ pc = "FAILED" => Len(trace) > 1
      /\ pc = "DONE" => trace = MissPath /\ ~metrics.cache_hit

(***************************************************************************)
(* Properties of the vector stores                                         *)
(***************************************************************************)
IdsOf(S) == {x.id : x \in S}
OnePerId(S) == \A x, y \in S : x.id = y.id => x = y
GivenIds(records) == {records[i].id : i \in 1..Len(records)}

\* C13: each store holds at most one record per id; after an upsert
\* total_vectors counts the ids held before together with the ids given, so
\* it is unchanged when every id given was already held; and the same
\* upsert made again changes nothing.
C13_UpsertIdempotentOnId ==
  /\ OnePerId(pineIndex)
  /\ OnePerId(pgTable)
  /\ lastCall.name = "upsert" =>
       LET ids == GivenIds(lastCall.args) IN
       /\ PineconeStats(pineIndex).value.total_vectors
            = Cardinality(IdsOf(lastCall.pineBefore) \cup ids)
       /\ PgStats(pgTable).value.total_vectors
            = Cardinality(IdsOf(lastCall.pgBefore) \cup ids)
       /\ ids \subseteq IdsOf(lastCall.pineBefore) =>
            PineconeStats(pineIndex) = PineconeStats(lastCall.pineBefore)
       /\ ids \subseteq IdsOf(lastCall.pgBefore) =>
            PgStats(pgTable) = PgStats(lastCall.pgBefore)
       /\ PineconeUpsert(pineIndex, lastCall.args, batch_size).index = pineIndex
       /\ PgUpsert(pgTable, lastCall.args).table = pgTable

C13_Witness ==
  /\ lastCall.name = "upsert"
  /\ Len(lastCall.args) = 2
  /\ lastCall.args[1].id = lastCall.args[2].id
  /\ lastCall.args[1] # lastCall.args[2]
  /\ GivenIds(lastCall.args) \subseteq IdsOf(lastCall.pgBefore)
  /\ PgStats(pgTable).value.total_vectors = 2

\* what a search returned about the latest upsert e of an id: at most one
\* record, with exactly that upsert's text, metadata and similarity
CarriesLatest(ret, e, query_vector) ==
  ~ret.raised =>
    LET hits == {i \in 1..Len(ret.value) : ret.value[i].id = e.id} IN
    /\ Cardinality(hits) <= 1
    /\ \A i \in hits :
         /\ ret.value[i].text = e.record.text
         /\ ret.value[i].metadata = e.record.metadata
         /\ ret.value[i].score = CosineSimilarity(e.record.vector, query_vector)

\* C14: after two upserts of an id with different texts, a search returns
\* that id at most once, with exactly the text, the metadata and the score
\* of the later upsert.
C14_SearchReturnsLatestUpsert ==
  lastCall.name = "search" =>
    \A e \in latest :
      e.replaced =>
        /\ CarriesLatest(lastCall.pine, e, lastCall.args.query_vector)
        /\ CarriesLatest(lastCall.pg, e, lastCall.args.query_vector)

\* at most top_k records, best first, each with a score and no vector
TopKDescending(ret, top_k) ==
  /\ ~ret.raised
  /\ Len(ret.value) <= top_k
  /\ \A i \in 1..(Len(ret.value) - 1) :
       ret.value[i].score >= ret.value[i + 1].score
  /\ \A i \in 1..Len(ret.value) :
       ret.value[i].score \in -10000..10000 /\ ret.value[i].vector = <<>>

\* C15: search on either store returns at most top_k records in descending
\* score order, each with a score and an empty vector; on the relational
\* store each score is 1 minus the cosine distance of the row to the query
\* vector and the rows returned are the top_k nearest that pass the filter.
C15_SearchTopKDescending ==
  lastCall.name = "search" =>
    LET q    == lastCall.args.query_vector
        k    == lastCall.args.top_k
        pass == {x \in lastCall.pgBefore :
                   FilterMatch(x.metadata,
                               IF FilterGiven(lastCall.args.filter)
                               THEN lastCall.args.filter.items ELSE <<>>)}
    IN  /\ TopKDescending(lastCall.pine, k)
        /\ TopKDescending(lastCall.pg, k)
        /\ Len(lastCall.pg.value) = Min(k, Cardinality(pass))
        /\ \A i \in 1..Len(lastCall.pg.value) :
             \E x \in pass :
               /\ x.id = lastCall.pg.value[i].id
               /\ lastCall.pg.value[i].score
                    = 10000 - CosineDistance(x.embedding, q)
               /\ \A y \in pass :
                    y.id \notin {lastCall.pg.value[j].id :
                                   j \in 1..Len(lastCall.pg.value)}
                      => CosineDistance(y.embedding, q)
                           >= CosineDistance(x.embedding, q)

\* the records a filtered search returns all match the filter, and a stored
\* record that matches is left out only when top_k better ones are returned
FilterRespected(ret, held, metadataOf(_), f, top_k) ==
  /\ ~ret.raised
  /\ \A i \in 1..Len(ret.value) : FilterMatch(ret.value[i].metadata, f.items)
  /\ \A x \in held :
       (FilterMatch(metadataOf(x), f.items)
          /\ x.id \notin {ret.value[i].id : i \in 1..Len(ret.value)})
         => Len(ret.value) = top_k

\* C16: with a filter, every record returned matches all its key/value
\* constraints and no stored record that matches is left out except by
\* top_k; an empty or absent filter restricts nothing.
C16_FilterRestrictsExactly ==
  lastCall.name = "search" =>
    LET f == IF FilterGiven(lastCall.args.filter)
             THEN lastCall.args.filter ELSE NoFilter
    IN  /\ FilterRespected(lastCall.pine, lastCall.pineBefore,
                           LAMBDA v : v.metadata, f, lastCall.args.top_k)
        /\ FilterRespected(lastCall.pg, lastCall.pgBefore,
                           LAMBDA x : x.metadata, f, lastCall.args.top_k)

\* C17: delete never raises, and returns the number of records removed:
\* the number of distinct ids given that were in the store.
C17_DeleteCountsRemoved ==
  lastCall.name = "delete" =>
    /\ ~lastCall.pine.raised
    /\ ~lastCall.pg.raised
    /\ lastCall.pine.value
         = Cardinality(IdSet(lastCall.args) \cap IdsOf(lastCall.pineBefore))
    /\ lastCall.pine.value = Cardinality(lastCall.pineBefore \ pineIndex)
    /\ lastCall.pg.value
         = Cardinality(IdSet(lastCall.args) \cap IdsOf(lastCall.pgBefore))
    /\ lastCall.pg.value = Cardinality(lastCall.pgBefore \ pgTable)

\* the id, text and metadata of the records of a search result
Visible(value) ==
  [i \in 1..Len(value) |->
     [id |-> value[i].id, text |-> value[i].text,
      metadata |-> value[i].metadata]]

\* C18: the same call returns the same on both stores: the same count from
\* upsert, delete and get_stats, and from search records with the same id,
\* text and metadata, the text being the text that was upserted.
C18_VariantsInterchangeable ==
  lastCall.name # "none" =>
    /\ lastCall.pine.raised = lastCall.pg.raised
    /\ ~lastCall.pine.raised =>
         IF lastCall.name = "search"
         THEN /\ Visible(lastCall.pine.value) = Visible(lastCall.pg.value)
              /\ \A i \in 1..Len(lastCall.pine.value) :
                   \E e \in latest :
                     /\ e.id = lastCall.pine.value[i].id
                     /\ e.record.text = lastCall.pine.value[i].text
         ELSE lastCall.pine.value = lastCall.pg.value

RECURSIVE Flatten(_)
Flatten(seqs) == IF seqs = <<>> THEN <<>> ELSE Head(seqs) \o Flatten(Tail(seqs))

\* C19: PineconeDB.upsert gives index.upsert every record once, in input
\* order, in batches of 1 to batch_size vectors, and returns the number of
\* records given; for no records it returns 0 and makes no call.
C19_BatchingTransparent ==
  lastCall.name = "upsert" =>
    /\ Flatten(lastCall.sent)
         = [i \in 1..Len(lastCall.args) |-> PineconeVector(lastCall.args[i])]
    /\ \A b \in 1..Len(lastCall.sent) :
         Len(lastCall.sent[b]) >= 1 /\ Len(lastCall.sent[b]) <= batch_size
    /\ lastCall.pine = Ret(Len(lastCall.args))
    /\ lastCall.args = <<>> => lastCall.sent = <<>>

C19_Witness ==
  /\ lastCall.name = "upsert"
  /\ batch_size = 2
  /\ Len(lastCall.args) = 3
  /\ Len(lastCall.sent) = 2
  /\ Len(lastCall.sent[2]) = 1
  /\ lastCall.pine.value = 3

(***************************************************************************)
(* Properties of chunk_text                                                *)
(***************************************************************************)
\* C20: the chunks chunk_text returns are numbered 0, 1, ..., n - 1 in the
\* order of the list, for every text, chunk_size and overlap.
C20_ChunkIndicesInOrder ==
  chunk_out.done =>
    \A i \in 1..Len(chunk_out.chunks) : chunk_out.chunks[i].chunk_index = i - 1

C20_Witness ==
  /\ chunk_out.done
  /\ Len(chunk_out.chunks) = 3
  /\ chunk_in.overlap >= chunk_in.chunk_size
  /\ chunk_out.chunks[3].chunk_index = 2

\* a occurs in b as a run of consecutive characters
IsSubstring(a, b) ==
  \E k \in 0..(Len(b) - Len(a)) : SubSeq(b, k + 1, k + Len(a)) = a

\* the sentence units of the input
Sentences == SplitSentences(chunk_in.text)

\* the texts of the chunks returned
ChunkTextsOut == [c \in 1..Len(chunk_out.chunks) |-> chunk_out.chunks[c].text]

\* C21: with overlap < chunk_size every sentence unit (trimmed, as chunks
\* are) stands in full in the chunk made from the buffer it entered, and
\* those chunks are in non-decreasing order along the sentences.
C21_EverySentenceInOrder ==
  (chunk_out.done /\ chunk_in.overlap < chunk_in.chunk_size) =>
    /\ Len(chunk_out.entered) = Len(Sentences)
    /\ \A i \in 1..Len(Sentences) :
         Strip(Sentences[i]) # <<>> =>
           /\ chunk_out.entered[i] < Len(chunk_out.chunks)
           /\ IsSubstring(Strip(Sentences[i]),
                          ChunkTextsOut[chunk_out.entered[i] + 1])
           /\ \A c \in 1..chunk_out.entered[i] :
                \/ ~IsSubstring(Strip(Sentences[i]), ChunkTextsOut[c])
                \/ \E j \in 1..(i - 1) :
                     IsSubstring(Strip(Sentences[i]), Sentences[j])
    /\ \A i \in 1..(Len(Sentences) - 1) :
         chunk_out.entered[i] <= chunk_out.entered[i + 1]

C21_Witness ==
  /\ chunk_out.done
  /\ chunk_in.chunk_size = 2
  /\ chunk_in.overlap = 1
  /\ Len(Sentences) = 3
  /\ \A i \in 1..3 : Strip(Sentences[i]) # <<>>
  /\ chunk_out.entered = <<0, 0, 1>>
  /\ Len(chunk_out.chunks) = 2

\* the chunks in which sentence unit i stands in full
ChunksHolding(i) ==
  {c \in 1..Len(ChunkTextsOut) : IsSubstring(Strip(Sentences[i]), ChunkTextsOut[c])}

\* sentence unit i has a text no other sentence unit contains
Unrepeated(i) ==
  \A j \in 1..Len(Sentences) :
    j # i => ~IsSubstring(Strip(Sentences[i]), Sentences[j])

\* C22: a sentence unit longer than chunk_size stands in full in exactly
\* one chunk.
C22_LongSentenceInOneChunk ==
  chunk_out.done =>
    \A i \in 1..Len(Sentences) :
      (Len(Strip(Sentences[i])) > chunk_in.chunk_size /\ Unrepeated(i))
        => Cardinality(ChunksHolding(i)) = 1

\* the same with the overlap below chunk_size, as the default configuration
\* has it
LongSentenceInOneChunk_smallOverlap ==
  chunk_in.overlap < chunk_in.chunk_size => C22_LongSentenceInOneChunk

\* the text is empty or holds whitespace only
Blank(text) == \A k \in 1..Len(text) : text[k] \in Whitespace

\* the text holds none of the characters a sentence unit ends with
NoBoundary(text) == \A k \in 1..Len(text) : text[k] \notin Boundary

\* C23: an empty or whitespace-only text gives no chunk, for every
\* chunk_size and overlap, and a text without a boundary character gives
\* exactly one chunk, which holds the whole trimmed text.
C23_BlankAndUnbrokenText ==
  chunk_out.done =>
    /\ Blank(chunk_in.text) => chunk_out.chunks = <<>>
    /\ (NoBoundary(chunk_in.text) /\ ~Blank(chunk_in.text)) =>
         /\ Len(chunk_out.chunks) = 1
         /\ chunk_out.chunks[1].text = Strip(chunk_in.text)

C23_Witness ==
  /\ chunk_out.done
  /\ chunk_in.text = <<" ", "a", " ", "b", " ">>
  /\ chunk_in.chunk_size = 1
  /\ chunk_in.overlap = 3
  /\ ChunkTextsOut = << <<"a", " ", "b">> >>

\* C24: chunk_text terminates for every text and every (chunk_size,
\* overlap), overlap >= chunk_size included: its loop runs once for each
\* sentence unit, of which a text has no more than characters plus one, and
\* it emits at most one chunk for each sentence unit.
C24_TerminatesWithinSentenceCount ==
  chunk_out.done =>
    /\ Len(chunk_out.entered) = Len(Sentences)
    /\ Len(Sentences) <= Len(chunk_in.text) + 1
    /\ Len(chunk_out.chunks) <= Len(Sentences)

C24_Witness ==
  /\ chunk_out.done
  /\ chunk_in.overlap >= chunk_in.chunk_size
  /\ chunk_in.chunk_size = 1
  /\ Len(Sentences) = 3
  /\ Len(chunk_out.chunks) = 3

IsSuffix(a, b) ==
  Len(a) <= Len(b) /\ SubSeq(b, Len(b) - Len(a) + 1, Len(b)) = a

\* the text a close carries from the closed buffer into the next one: the
\* next buffer without the space and the sentence appended to it
Carried(close) ==
  SubSeq(close.next, 1, Len(close.next) - Len(close.sentence) - 1)

\* C25: with overlap >= chunk_size the text carried from a closed chunk
\* into the next buffer is at most chunk_size - 1 characters long.
C25_OverlapCapped ==
  (/\ chunk_out.done
   /\ chunk_in.chunk_size >= 1
   /\ chunk_in.overlap >= chunk_in.chunk_size) =>
    \A k \in 1..Len(chunk_out.closes) :
      Len(Carried(chunk_out.closes[k])) <= chunk_in.chunk_size - 1

\* the text carried is never longer than overlap
CarriedWithinOverlap ==
  chunk_out.done =>
    \A k \in 1..Len(chunk_out.closes) :
      /\ Len(Carried(chunk_out.closes[k])) =
           Min(chunk_in.overlap, Len(chunk_out.closes[k].closed))
      /\ IsSuffix(Carried(chunk_out.closes[k]), chunk_out.closes[k].closed)

\* every sentence unit of the input fits into chunk_size and the overlap is
\* below chunk_size
SentencesFit ==
  /\ chunk_in.overlap < chunk_in.chunk_size
  /\ \A i \in 1..Len(Sentences) : Len(Sentences[i]) <= chunk_in.chunk_size

\* C26 as stated: when every sentence unit is at most chunk_size long and
\* overlap < chunk_size, every chunk text is at most chunk_size + overlap
\* characters long.
C26_ChunkWithinSizePlusOverlap ==
  (chunk_out.done /\ SentencesFit) =>
    \A c \in 1..Len(ChunkTextsOut) :
      Len(ChunkTextsOut[c]) <= chunk_in.chunk_size + chunk_in.overlap

\* C26 amended: under the same condition every chunk text is at most
\* chunk_size + overlap + 1 characters long, the one more being the space
\* that joins the carried text and the sentence.
C26_ChunkWithinSizePlusOverlapPlusSpace ==
  (chunk_out.done /\ SentencesFit) =>
    \A c \in 1..Len(ChunkTextsOut) :
      Len(ChunkTextsOut[c]) <= chunk_in.chunk_size + chunk_in.overlap + 1

C26_Witness ==
  /\ chunk_out.done
  /\ SentencesFit
  /\ chunk_in.text = <<"a", ".", " ", "b", ".">>
  /\ chunk_in.chunk_size = 2
  /\ chunk_in.overlap = 1
  /\ ChunkTextsOut = << <<"a", ".">>, <<".", " ", "b", ".">> >>

(***************************************************************************)
(* Properties of generate_response                                         *)
(***************************************************************************)
\* C28: for every history, absent, empty or a list of turns, the messages
\* sent to the generation service start with the system instruction, end
\* with the current query's user turn, and hold the history's turns in
\* between, in their order, each once.
C28_HistoryBetweenSystemAndQuery ==
  generation.done =>
    LET messages == generation.messages
        turns    == generation.history.turns
    IN  /\ Len(messages) = Len(turns) + 2
        /\ messages[1] = SystemMessage
        /\ messages[Len(messages)] =
             UserMessage(generation.query, generation.context)
        /\ SubSeq(messages, 2, Len(messages) - 1) = turns

C28_Witness ==
  /\ generation.done
  /\ Len(generation.history.turns) = 3
  /\ generation.history.turns[1] # generation.history.turns[3]
  /\ Len(generation.messages) = 5
  /\ generation.messages[4] = generation.history.turns[3]

(***************************************************************************)
(* Properties of the lazily created connections                            *)
(***************************************************************************)
\* C30: over any sequence of uses, concurrent first uses included, the
\* connection constructor runs at most once and every caller gets the same
\* connection.
C30_ConnectionCreatedOnce ==
  client.built =>
    /\ client.constructed <= 1
    /\ Cardinality(client.returned) <= 1

\* when no use starts while another is under way, the constructor runs
\* once, on the first use, and every caller gets that one connection
SequentialUseConstructsOnce ==
  (client.built /\ ~client.overlapped) =>
    /\ client.constructed <= 1
    /\ client.returned \subseteq {1}
    /\ client.returned # {} => client.constructed = 1

(***************************************************************************)
(* No retries in process_query                                             *)
(***************************************************************************)
\* how many times the invocation has run the stage
TimesRun(stage) == Cardinality({k \in 1..Len(trace) : trace[k] = stage})

\* C32: in one execution the embedding service, the vector search and the
\* generation service are each called at most once, whether the call
\* returns or raises: a stage that has run is not run again.
C32_NoStageRetried ==
  /\ calls.embed = TimesRun("EMBED") /\ calls.embed <= 1
  /\ calls.search = TimesRun("SEARCH") /\ calls.search <= 1
  /\ calls.generate = TimesRun("GENERATE") /\ calls.generate <= 1
  /\ \A stage \in RemoteCall :
       FailedAt(stage) => TimesRun(stage) = 1 /\ result.statusCode = 500

C32_Witness ==
  /\ FailedAt("SEARCH")
  /\ calls.embed = 1
  /\ calls.search = 1
  /\ calls.generate = 0
  /\ runs = 2
  /\ prev # None

(***************************************************************************)
(* The overlap of chunk_text                                               *)
(***************************************************************************)
\* the last n characters of s
Suffix(s, n) == SubSeq(s, Len(s) - n + 1, Len(s))

\* C33: at every close the next buffer is the last min(overlap, len(closed
\* buffer)) characters of the closed buffer, a space, and the sentence that
\* triggered the close; so with overlap > 0 every chunk after the first
\* begins with text that ends the chunk before it.
C33_NextBufferCarriesSuffix ==
  chunk_out.done =>
    /\ \A k \in 1..Len(chunk_out.closes) :
         LET close == chunk_out.closes[k] IN
         close.next =
           Suffix(close.closed, Min(chunk_in.overlap, Len(close.closed)))
             \o <<" ">> \o close.sentence
    /\ chunk_in.overlap > 0 =>
         \A c \in 2..Len(ChunkTextsOut) :
           LET shared == LStrip(Carried(chunk_out.closes[c - 1])) IN
           /\ shared # <<>>
           /\ IsPrefix(shared, ChunkTextsOut[c])
           /\ IsSuffix(shared, ChunkTextsOut[c - 1])

C33_Witness ==
  /\ chunk_out.done
  /\ chunk_in.text = <<"a", "b", ".", " ", "a">>
  /\ chunk_in.chunk_size = 3
  /\ chunk_in.overlap = 2
  /\ ChunkTextsOut = << <<"a", "b", ".">>, <<"b", ".", " ", "a">> >>

(***************************************************************************)
(* The statement of PgVectorDB.search                                      *)
(***************************************************************************)
\* the parameter the statement needs at a placeholder
Wanted(hole, args) ==
  CASE hole.role = "limit"  -> Param("int", args.top_k)
    [] hole.role = "filter" ->
         LET i == CHOOSE j \in 1..Len(args.filter.items) :
                    args.filter.items[j].key = hole.key
         IN  Param("text", args.filter.items[i].value)
    [] OTHER                -> Param("vector", args.query_vector)

\* C34: in PgVectorDB.search, with any number of filter keys, the
\* parameters line up with the placeholders: the query vector at the score
\* expression and at ORDER BY, each filter value at its own predicate, in
\* key order, and top_k at LIMIT.
C34_ParametersLineUp ==
  lastCall.name = "search" =>
    LET holes  == PgSearchPlaceholders(lastCall.args.filter)
        params == PgSearchParams(lastCall.args.query_vector,
                                 lastCall.args.top_k, lastCall.args.filter)
    IN  /\ Len(params) = Len(holes)
        /\ \A i \in 1..Len(holes) :
             /\ params[i].type = Wanted(holes[i], lastCall.args).type
             /\ params[i].value = Wanted(holes[i], lastCall.args).value

\* the score expression and the filter predicates get their parameters
ScoreAndFiltersLineUp ==
  lastCall.name = "search" =>
    LET holes  == PgSearchPlaceholders(lastCall.args.filter)
        params == PgSearchParams(lastCall.args.query_vector,
                                 lastCall.args.top_k, lastCall.args.filter)
    IN  /\ Len(params) = Len(holes)
        /\ \A i \in 1..Len(holes) :
             holes[i].role \in {"score", "filter"} =>
               /\ params[i].type = Wanted(holes[i], lastCall.args).type
               /\ params[i].value = Wanted(holes[i], lastCall.args).value

(***************************************************************************)
(* Properties of PgVectorDB.conn                                           *)
(***************************************************************************)
\* C35: every operation that reaches the backend comes after a successful
\* ensure-table-and-index step on its connection, the step leaves an
\* ensured schema as it is, and an operation on a connection whose ensure
\* step has not succeeded attempts it again.
C35_EnsuredBeforeEveryOperation ==
  (client.built /\ client.last.op # "none") =>
    /\ client.last.reached => client.last.ensuredBefore
    /\ ~client.last.ensuredBefore => client.last.attempted \/ client._conn = "None"
    /\ EnsureTable(EnsureTable(client.schema)) = EnsureTable(client.schema)

\* as long as no ensure step has failed, the operations that reach the
\* backend come after a successful one, and the schema, once ensured, stays
EnsuredUnlessEnsureFailed ==
  (client.built /\ client.last.op # "none" /\ ~client.ensureFailed) =>
    /\ client.last.reached => client.last.ensuredBefore
    /\ client.last.reached => client.schema = {"table", "index"}

(***************************************************************************)
(* Properties of process_query with a request filter                       *)
(***************************************************************************)
\* the record of the index a source was built from matches the filter
FromMatching(src, f) ==
  \E v \in pineIndex : /\ v.id = src.chunk_id
                       /\ FilterMatch(v.metadata, f.items)

\* C37: the sources of the response to a request with filter F all come
\* from records matching F, also when the response is served from the cache
C37_SourcesMatchFilter ==
  (pc = "DONE" /\ runs > 0 /\ FilterGiven(filter_metadata))
    => \A i \in 1..Len(response.sources) :
         FromMatching(response.sources[i], filter_metadata)

\* a response computed by searching has its sources from matching records
SearchedSourcesMatchFilter ==
  (pc = "DONE" /\ runs > 0 /\ FilterGiven(filter_metadata)
     /\ cacheRead = "miss")
    => \A i \in 1..Len(response.sources) :
         FromMatching(response.sources[i], filter_metadata)

(***************************************************************************)
(* Properties of the document pipeline                                     *)
(***************************************************************************)
Settled == {"completed", "failed"}

\* C31: once the document's record is 'completed' or 'failed' it never
\* goes back to 'processing', however the two lambdas interleave
C31_SettledNeverProcessing ==
  [][(DocStatus \in Settled) => (DocStatus' # "processing")]_vars

\* only the ingestion lambda's save_metadata puts the record back to
\* 'processing'
OnlySaveReturnsToProcessing ==
  [][(DocStatus \in Settled /\ DocStatus' = "processing")
       => (ingestion.pc = "save" /\ ingestion'.pc = "returned")]_vars

\* the message the embedding lambda was last handed, and its chunks' ids
Handled == queue[embedder.msg].body
HandledIds ==
  {generate_chunk_id(Handled.document_id, Handled.chunks[i].chunk_index,
                     Handled.chunks[i].text) :
     i \in 1..Len(Handled.chunks)}

\* the ids the backend of that type holds
BackendIds(type) ==
  IF type = "pinecone" THEN {v.id : v \in pineIndex}
  ELSE {r.id : r \in pgTable}

\* C36: for either VECTOR_DB_TYPE, a handoff whose chunks were all embedded
\* ends with its vectors in the selected backend and the status
\* 'completed', and a query searches that backend
C36_SelectedBackendServes ==
  /\ (embedder.pc = "returned" /\ embedder.embedded
        /\ embedder.marked # "none")
       => /\ embedder.marked = "completed"
          /\ HandledIds \subseteq BackendIds(config.VECTOR_DB_TYPE)
  /\ lastCall # NoCall => lastCall.backend = config.VECTOR_DB_TYPE

\* with VECTOR_DB_TYPE "pinecone" the handoff ends so
PineconeSelectedServes ==
  config.VECTOR_DB_TYPE = "pinecone"
    => /\ (embedder.pc = "returned" /\ embedder.embedded
             /\ embedder.marked # "none")
            => /\ embedder.marked = "completed"
               /\ HandledIds \subseteq BackendIds("pinecone")
       /\ lastCall # NoCall => lastCall.backend = "pinecone"

\* C38: processing the same handoff message a second time leaves the
\* index with the same ids, text and metadata, and as many records
C38_SecondProcessingIdempotent ==
  embedder.stores >= 2 => Stored(pineIndex) = embedder.first

\* a message was stored in full twice, with other vectors the second time
C38_Witness ==
  /\ embedder.stores = 2
  /\ embedder.pc = "update"
  /\ embedder.first.count = Len(DocChunks)
  /\ \E v \in pineIndex : v.values = <<5, 0>>
  /\ \A v \in pineIndex : v.values # <<3, 4>>

\* every chunk of the message handled is in the index, and counted
AllStored ==
  /\ embedder.vectors_stored = Len(Handled.chunks)
  /\ HandledIds \subseteq BackendIds("pinecone")

\* C39: the embedding lambda marks the document 'completed' only when every
\* chunk was embedded and stored, and 'failed' when the handling of a
\* message ended with a chunk not embedded or not stored
C39_FailedUnlessAllStored ==
  /\ embedder.marked = "completed" => (embedder.embedded /\ AllStored)
  /\ (embedder.pc \in {"returned", "raised"} /\ ~AllStored)
       => embedder.marked = "failed"

\* 'completed' is written only with every chunk embedded and stored
CompletedOnlyWhenAllStored ==
  embedder.marked = "completed" => (embedder.embedded /\ AllStored)

\* C40: a document recorded as 'processing' is in the end recorded as
\* 'completed' or 'failed'
C40_ProcessingSettles ==
  (DocStatus = "processing") ~> (DocStatus \in Settled)

====
